---------------------------- MODULE Spec2Model ----------------------------
(***************************************************************************)
(* A model of the mavgen compiler pipeline of rust-mavlink:                *)
(*   parser.rs      include-graph parser (Parser, World)                    *)
(*   flatten.rs     post-order flattening of the parsed files               *)
(*   normaliser.rs  lowering of a flattened module to the validated IR      *)
(*   model.rs       the IR types and their helpers                          *)
(* Each stage has its own specification over the shared variables.         *)
(***************************************************************************)
EXTENDS Integers, Sequences, FiniteSets, TLC

(***************************************************************************)
(* Bounds of the model.                                                    *)
(***************************************************************************)
\* number of files of the World (canonical paths 1..NFiles)
NFiles == 3
\* total number of <include> elements over all files of a World
MaxEdges == 3
\* Parser::parse calls before Parser::finish
MaxParseCalls == 2
\* the value a caller sets Parser::max_include_recursion to (the tests set 3)
RecursionLimit == 2
\* entries of an enum whose values are derived (the tests use 5)
MaxEntries == 5
\* entries of an enum whose names are normalised as well
MaxNamedEntries == 3
\* fields of a message, regular and extension together
MaxFields == 4
\* enums and messages of a flattened module, together
MaxItems == 4
\* the regular fields of a message extra_crc is applied to
MaxCrcFields == 2
\* the fields of a message whose emitted ser and deser are called
MaxCodecFields == 2
\* the input files of a call of generate_dir
MaxInputs == 3
\* the length of the short strings parsed as identifiers
MaxIdentLen == 2
\* the entries of an enum whose width is computed
MaxSizeEntries == 2
\* total number of <include> elements of a World with a file that fails
MaxFaultyEdges == 2
\* the length of the short strings parsed as entry values
MaxLiteralLen == 3

\* the number of messages of the modules the dispatch is emitted for
MaxDispatchMessages == 2

(***************************************************************************)
(* Generic helpers.                                                        *)
(***************************************************************************)
Range(s) == {s[i] : i \in DOMAIN s}

SeqsUpTo(S, n) == UNION {[1..k -> S] : k \in 0..n}

Contains(s, x) == \E i \in DOMAIN s : s[i] = x

Last(s) == s[Len(s)]

Front(s) == SubSeq(s, 1, Len(s) - 1)

VARIABLES
    \* ---- parser.rs ----
    world,              \* the World: path -> [kind, include]
    parsed,             \* Parser::parsed
    errors,             \* Parser::errors
    max_include_recursion, \* Parser::max_include_recursion
    inclusion_stack,    \* Parser::inclusion_stack
    calls,              \* the roots passed to Parser::parse so far, in order
    trace,              \* history: the includes reached and the files read
    result,             \* what Parser::finish returned; status "running" before it
    \* ---- flatten.rs ----
    files,              \* the map flatten is given: path -> MavlinkFile
    module,             \* what the last flatten call returned; status "none" before
    \* ---- normaliser.rs ----
    overflow_checks,    \* the build: TRUE if integer overflow panics (debug), FALSE if it wraps
    enum_arg,           \* the arguments of normalise_entries: [enum, bitmask, entries]
    derived_values,     \* what derive_enum_entry_values returned for them
    normalised_entries, \* what normalise_entries returned for them
    message_arg,        \* the arguments of normalise_fields: [enums, message, fields, extension_fields]
    normalised_fields,  \* what normalise_fields returned for them
    flat_module,        \* the flatten::MavlinkModule given to normalise_module
    normaliser,         \* the Normaliser: [enums, messages, allocated_message_ids, errors]
    pending_enums,      \* the enums normalise_enums has not reached yet
    pending_messages,   \* the messages normalise_messages has not reached yet
    ir_enums,           \* the enums normalise_enums has collected
    ir_messages,        \* the messages normalise_messages has collected
    ir_module,          \* what normalise_module returned; status "none" before
    \* ---- model.rs and normaliser.rs: functions applied on their own ----
    crc_arg,            \* the two Messages extra_crc is applied to
    extra_crcs,         \* what extra_crc returned for the two
    ident_arg,          \* the string parsed as Ident
    ident_result,       \* what the parse returned, and what its value parses to
    size_arg,           \* the entries of the Enum min_rust_size is applied to
    size_result,        \* what min_rust_size returned
    reference_arg,      \* the arguments of resolve_enum_reference: [enums, enum, type]
    reference_result,   \* what resolve_enum_reference returned
    \* ---- codegen/rust/mod.rs: the emitted serialiser and deserialiser ----
    codec_arg,          \* [message, enums, value, version, buffer]: a value of the
                        \* emitted message type and the arguments of ser
    ser_result,         \* what ser returned, and the bytes it wrote
    deser_result,       \* what deser returned for the bytes ser returned
    dispatch_arg,       \* [messages, call, ...]: the messages of a module and
                        \* a call of a function of the emitted MavMessage
    dispatch_result,    \* what emitting the module and the call came to
    \* ---- lib.rs ----
    driver_arg,         \* the arguments of generate_dir or generate_one and
                        \* what the file system and the stages do with them
    driver_pc,          \* where the call is
    driver_next,        \* the index of the input the loop of the call is at
    written,            \* the files written so far, in order
    driver_result       \* what the call returned; status "none" before

parserVars == <<world, parsed, errors, max_include_recursion, inclusion_stack,
                calls, trace, result>>

flattenVars == <<files, module>>

entriesVars == <<enum_arg, derived_values, normalised_entries>>

fieldsVars == <<message_arg, normalised_fields>>

moduleVars == <<flat_module, normaliser, pending_enums, pending_messages,
                ir_enums, ir_messages, ir_module>>

normaliserVars == <<overflow_checks, entriesVars, fieldsVars, moduleVars>>

functionVars == <<crc_arg, extra_crcs, ident_arg, ident_result, size_arg,
                  size_result, reference_arg, reference_result>>

codecVars == <<codec_arg, ser_result, deser_result, dispatch_arg, dispatch_result>>

driverVars == <<driver_arg, driver_pc, driver_next, written, driver_result>>

\* the variables of the sections below the normaliser
otherVars == <<functionVars, codecVars, driverVars>>

vars == <<parserVars, flattenVars, normaliserVars, otherVars>>

(***************************************************************************)
(* parser.rs: the World.                                                   *)
(* A path is a number of Files.  kind says what the World does with it:    *)
(*   "ok"      normalise_path and read_file succeed, the text is XML       *)
(*   "xml"     read_file succeeds, xml::Mavlink::from_str fails            *)
(*   "io"      normalise_path succeeds, read_file fails                    *)
(*   "nopath"  normalise_path fails (fs::canonicalize of a missing file)   *)
(* include is the file's <include> list, each entry already resolved        *)
(* against the parent directory of the including file.                     *)
(***************************************************************************)
Files == 1..NFiles

FileKinds == {"ok", "xml", "io", "nopath"}

RECURSIVE IncludeLists(_, _)
\* the include lists of files 1..n holding at most b entries in all
IncludeLists(n, b) ==
    IF n = 0 THEN {<<>>}
    ELSE UNION { {Append(w, s) : w \in IncludeLists(n - 1, b - Len(s))}
                 : s \in SeqsUpTo(Files, b) }

\* the Worlds whose files can all be read and parsed
Worlds ==
    { [f \in Files |-> [kind |-> "ok", include |-> w[f]]]
      : w \in IncludeLists(NFiles, MaxEdges) }

read_file(w, path) == w[path].kind \in {"ok", "xml"}

normalise_path(w, path) == w[path].kind # "nopath"

from_str_ok(w, path) == w[path].kind = "ok"

(***************************************************************************)
(* parser.rs: Parser.  The recursion of parse_normalised and               *)
(* try_parse_recursively threads the parser's fields through a record st.  *)
(* st.trace is a history of the calls: an "include" event for every call   *)
(* of parse_normalised (with the stack depth it found and whether the path *)
(* was in the parsed map already) and a "read" event                       *)
(* for every call of World::read_file.                                     *)
(***************************************************************************)
MAX_INCLUDE_RECURSION == 10

NoErr == [kind |-> "none"]

IoError(path) == [kind |-> "Io", path |-> path]

XmlError(path) == [kind |-> "Xml", path |-> path]

RecursionLimitExceeded(stack) == [kind |-> "RecursionLimitExceeded", stack |-> stack]

CycleDetected == [kind |-> "CycleDetected"]

\* the first include of the list whose normalise_path fails, 0 if none
FirstBadInclude(w, incl) ==
    IF \E i \in DOMAIN incl : ~normalise_path(w, incl[i])
    THEN incl[CHOOSE i \in DOMAIN incl :
                  /\ ~normalise_path(w, incl[i])
                  /\ \A j \in 1..(i - 1) : normalise_path(w, incl[j])]
    ELSE 0

RECURSIVE parse_normalised(_, _, _, _)
RECURSIVE try_parse_recursively(_, _, _, _)
RECURSIVE parse_includes(_, _, _, _, _)

\* for include in normalised_includes { self.parse_normalised(include) }
parse_includes(w, lim, st, incl, i) ==
    IF i > Len(incl) THEN st
    ELSE parse_includes(w, lim, parse_normalised(w, lim, st, incl[i]), incl, i + 1)

\* returns [st, err]: the parser's fields and the Result of the call
try_parse_recursively(w, lim, st, path) ==
    IF path \in DOMAIN st.parsed
    THEN [st |-> st, err |-> NoErr]
    ELSE LET rd == [st EXCEPT !.trace =
                       Append(st.trace, [ev |-> "read", path |-> path])]
         IN
         IF ~read_file(w, path)
         THEN [st |-> rd, err |-> IoError(path)]
         ELSE IF ~from_str_ok(w, path)
         THEN [st |-> rd, err |-> XmlError(path)]
         ELSE IF FirstBadInclude(w, w[path].include) # 0
         THEN [st |-> rd, err |-> IoError(FirstBadInclude(w, w[path].include))]
         ELSE LET normalised_includes == w[path].include
                  inserted == [rd EXCEPT !.parsed =
                                 [p \in DOMAIN rd.parsed \cup {path} |->
                                    IF p = path
                                    THEN [normalised_includes |-> normalised_includes]
                                    ELSE rd.parsed[p]]]
              IN  [st  |-> parse_includes(w, lim, inserted, normalised_includes, 1),
                   err |-> NoErr]

\* parse_normalised with the limit test off by one
parse_normalised_off_by_one(w, lim, st0, normalised) ==
    LET st == [st0 EXCEPT !.trace =
                  Append(st0.trace, [ev |-> "include", path |-> normalised,
                                     depth |-> Len(st0.inclusion_stack),
                                     known |-> normalised \in DOMAIN st0.parsed])]
    IN
    IF Len(st.inclusion_stack) > lim
    THEN [st EXCEPT !.errors =
             Append(st.errors, RecursionLimitExceeded(st.inclusion_stack))]
    ELSE LET pushed == [st EXCEPT !.inclusion_stack =
                           Append(st.inclusion_stack, normalised)]
             r == try_parse_recursively(w, lim, pushed, normalised)
             after == IF r.err # NoErr
                      THEN [r.st EXCEPT !.errors = Append(r.st.errors, r.err)]
                      ELSE r.st
         IN  [after EXCEPT !.inclusion_stack = Front(after.inclusion_stack)]

\* parse_normalised leaving the path on the stack when the file fails
parse_normalised_no_pop(w, lim, st0, normalised) ==
    LET st == [st0 EXCEPT !.trace =
                  Append(st0.trace, [ev |-> "include", path |-> normalised,
                                     depth |-> Len(st0.inclusion_stack),
                                     known |-> normalised \in DOMAIN st0.parsed])]
    IN
    IF Len(st.inclusion_stack) = lim
    THEN [st EXCEPT !.errors =
             Append(st.errors, RecursionLimitExceeded(st.inclusion_stack))]
    ELSE LET pushed == [st EXCEPT !.inclusion_stack =
                           Append(st.inclusion_stack, normalised)]
             r == try_parse_recursively(w, lim, pushed, normalised)
         IN  IF r.err # NoErr
             THEN [r.st EXCEPT !.errors = Append(r.st.errors, r.err)]
             ELSE [r.st EXCEPT !.inclusion_stack = Front(r.st.inclusion_stack)]

parse_normalised(w, lim, st0, normalised) ==
    LET st == [st0 EXCEPT !.trace =
                  Append(st0.trace, [ev |-> "include", path |-> normalised,
                                     depth |-> Len(st0.inclusion_stack),
                                     known |-> normalised \in DOMAIN st0.parsed])]
    IN
    IF Len(st.inclusion_stack) = lim
    THEN [st EXCEPT !.errors =
             Append(st.errors, RecursionLimitExceeded(st.inclusion_stack))]
    ELSE LET pushed == [st EXCEPT !.inclusion_stack =
                           Append(st.inclusion_stack, normalised)]
             r == try_parse_recursively(w, lim, pushed, normalised)
             after == IF r.err # NoErr
                      THEN [r.st EXCEPT !.errors = Append(r.st.errors, r.err)]
                      ELSE r.st
         IN  [after EXCEPT !.inclusion_stack = Front(after.inclusion_stack)]

\* Parser::parse
parse(w, lim, st, file) ==
    IF normalise_path(w, file)
    THEN parse_normalised(w, lim, st, file)
    ELSE [st EXCEPT !.errors = Append(st.errors, IoError(file))]

(***************************************************************************)
(* parser.rs: detect_cycles and finish.  topo_sort::TopoSort is the crate   *)
(* the code calls: nodes are the parsed paths, an include that is no node  *)
(* or is the node itself is not an edge, and iterating the sort yields an  *)
(* error exactly when some nodes can never be emitted (Kahn's algorithm).  *)
(***************************************************************************)
RECURSIVE TopoLeftover(_, _)
\* the nodes a topological sort of the rest can never emit
TopoLeftover(p, nodes) ==
    LET ready == {n \in nodes :
                    \A i \in DOMAIN p[n].normalised_includes :
                        LET d == p[n].normalised_includes[i]
                        IN  d = n \/ d \notin nodes}
    IN  IF ready = {} THEN nodes ELSE TopoLeftover(p, nodes \ ready)

TopoSortFails(p) == TopoLeftover(p, DOMAIN p) # {}

SelfInclude(p) == \E f \in DOMAIN p : Contains(p[f].normalised_includes, f)

\* detect_cycles without its own test for a file that includes itself
detect_cycles_no_self_test(p, errs) ==
    IF TopoSortFails(p) THEN Append(errs, CycleDetected) ELSE errs

\* Parser::detect_cycles: the errors after it
detect_cycles(p, errs) ==
    IF SelfInclude(p) THEN Append(errs, CycleDetected)
    ELSE IF TopoSortFails(p) THEN Append(errs, CycleDetected)
    ELSE errs

\* finish returning the map whatever the errors are
finish_always_ok(p, errs) == [status |-> "Ok", parsed |-> p]

\* Parser::finish
finish(p, errs) ==
    LET es == detect_cycles(p, errs)
    IN  IF es = <<>> THEN [status |-> "Ok", parsed |-> p]
        ELSE [status |-> "Err", errors |-> es]

(***************************************************************************)
(* The parser as a state machine: Parser::new, then parse calls, then      *)
(* finish, which consumes the parser.                                      *)
(***************************************************************************)
EmptyMap == [p \in {} |-> 0]

\* the values of the variables of a stage while another stage is checked
NotCalled == [status |-> "none"]

EntriesIdle ==
    /\ enum_arg = NotCalled
    /\ derived_values = NotCalled
    /\ normalised_entries = NotCalled

FieldsIdle ==
    /\ message_arg = NotCalled
    /\ normalised_fields = NotCalled

ModuleIdle ==
    /\ flat_module = NotCalled
    /\ normaliser = NotCalled
    /\ pending_enums = <<>>
    /\ pending_messages = <<>>
    /\ ir_enums = <<>>
    /\ ir_messages = <<>>
    /\ ir_module = NotCalled

NormaliserIdle == overflow_checks = FALSE /\ EntriesIdle /\ FieldsIdle /\ ModuleIdle

ParserIdle ==
    /\ world = EmptyMap
    /\ max_include_recursion = MAX_INCLUDE_RECURSION
    /\ parsed = EmptyMap
    /\ errors = <<>>
    /\ inclusion_stack = <<>>
    /\ calls = <<>>
    /\ trace = <<>>
    /\ result = [status |-> "running"]

FlattenIdle ==
    /\ files = EmptyMap
    /\ module = NotCalled

CrcIdle == crc_arg = NotCalled /\ extra_crcs = NotCalled

IdentIdle == ident_arg = NotCalled /\ ident_result = NotCalled

SizeIdle == size_arg = NotCalled /\ size_result = NotCalled

ReferenceIdle == reference_arg = NotCalled /\ reference_result = NotCalled

FunctionsIdle == CrcIdle /\ IdentIdle /\ SizeIdle /\ ReferenceIdle

CodecIdle ==
    /\ codec_arg = NotCalled
    /\ ser_result = NotCalled
    /\ deser_result = NotCalled
    /\ dispatch_arg = NotCalled
    /\ dispatch_result = NotCalled

DriverIdle ==
    /\ driver_arg = NotCalled
    /\ driver_pc = "idle"
    /\ driver_next = 1
    /\ written = <<>>
    /\ driver_result = NotCalled

OtherIdle == FunctionsIdle /\ CodecIdle /\ DriverIdle

Init ==
    /\ world \in Worlds
    /\ max_include_recursion \in {RecursionLimit, MAX_INCLUDE_RECURSION}
    /\ parsed = EmptyMap
    /\ errors = <<>>
    /\ inclusion_stack = <<>>
    /\ calls = <<>>
    /\ trace = <<>>
    /\ result = [status |-> "running"]
    /\ FlattenIdle
    /\ NormaliserIdle
    /\ OtherIdle

Parse(file) ==
    /\ result.status = "running"
    /\ Len(calls) < MaxParseCalls
    /\ LET st == parse(world, max_include_recursion,
                       [parsed |-> parsed, errors |-> errors,
                        inclusion_stack |-> inclusion_stack, trace |-> trace],
                       file)
       IN  /\ parsed' = st.parsed
           /\ errors' = st.errors
           /\ inclusion_stack' = st.inclusion_stack
           /\ trace' = st.trace
    /\ calls' = Append(calls, file)
    /\ UNCHANGED <<world, max_include_recursion, result>>
    /\ UNCHANGED <<flattenVars, normaliserVars, otherVars>>

Finish ==
    /\ result.status = "running"
    /\ result' = finish(parsed, errors)
    /\ UNCHANGED <<world, parsed, errors, max_include_recursion,
                   inclusion_stack, calls, trace>>
    /\ UNCHANGED <<flattenVars, normaliserVars, otherVars>>

Next ==
    \/ \E file \in Files : Parse(file)
    \/ Finish

Spec == Init /\ [][Next]_vars

(***************************************************************************)
(* Claims about the parser.                                                *)
(***************************************************************************)
\* the parsed files that file f includes
ParsedIncludes(p, f) == {g \in DOMAIN p : Contains(p[f].normalised_includes, g)}

RECURSIVE ReachableFrom(_, _)
\* the parsed files reachable from the set S along includes (S included)
ReachableFrom(p, S) ==
    LET T == S \cup UNION {ParsedIncludes(p, f) : f \in S}
    IN  IF T = S THEN S ELSE ReachableFrom(p, T)

\* the include graph of the parsed files has a directed cycle
HasCycle(p) == \E f \in DOMAIN p : f \in ReachableFrom(p, ParsedIncludes(p, f))

finished == result.status # "running"

ReportsCycle == result.status = "Err" /\ Contains(result.errors, CycleDetected)

\* C1: once finish has returned, a self-include or any directed cycle among
\* the parsed files makes the result Err with CycleDetected among the errors,
\* and an acyclic include graph (a diamond too) never reports CycleDetected.
C1_CycleDetection == finished => (ReportsCycle <=> HasCycle(parsed))

\* finish reported a cycle of three files, none of which includes itself or
\* is in a cycle of two
C1_Witness ==
    /\ ReportsCycle
    /\ \E a, b, c \in DOMAIN parsed :
          /\ Cardinality({a, b, c}) = 3
          /\ b \in ParsedIncludes(parsed, a)
          /\ c \in ParsedIncludes(parsed, b)
          /\ a \in ParsedIncludes(parsed, c)
    /\ \A a, b \in DOMAIN parsed :
          ~(b \in ParsedIncludes(parsed, a) /\ a \in ParsedIncludes(parsed, b))

\* the indices of the "include" events that found the stack full
AtLimit == {i \in DOMAIN trace :
              trace[i].ev = "include" /\ trace[i].depth = max_include_recursion}

\* the RecursionLimitExceeded errors, in the order they were recorded
LimitErrors == SelectSeq(errors, LAMBDA e : e.kind = "RecursionLimitExceeded")

\* the chain of files open when event i happened: for every depth below the
\* event's, the path of the latest include event at that depth
ChainAt(i) ==
    [d \in 1..trace[i].depth |->
        trace[CHOOSE j \in 1..(i - 1) :
                  /\ trace[j].ev = "include"
                  /\ trace[j].depth = d - 1
                  /\ \A k \in (j + 1)..(i - 1) :
                        ~(trace[k].ev = "include" /\ trace[k].depth = d - 1)].path]

\* the k-th event of AtLimit, in trace order
NthAtLimit(k) ==
    CHOOSE i \in AtLimit : Cardinality({j \in AtLimit : j <= i}) = k

\* C2: every include reached with max_include_recursion paths on the stack
\* records exactly one RecursionLimitExceeded error, whose stack is the chain
\* of paths from the root to the including file (root first, as long as the
\* limit, each file including the next, the last including the file that was
\* reached), and the included file is not read.
C2_RecursionCap ==
    /\ Len(LimitErrors) = Cardinality(AtLimit)
    /\ \A k \in 1..Len(LimitErrors) :
          LET i == NthAtLimit(k)
              stack == LimitErrors[k].stack
          IN  /\ Len(stack) = max_include_recursion
              /\ stack = ChainAt(i)
              /\ stack[1] \in Range(calls)
              /\ \A d \in 1..(Len(stack) - 1) :
                    Contains(world[stack[d]].include, stack[d + 1])
              /\ Contains(world[stack[Len(stack)]].include, trace[i].path)
              /\ (i < Len(trace) => trace[i + 1].ev # "read")

\* the chain 1 -> 2 -> ... -> limit + 1 parsed from its root: one error only,
\* with the stack <<1, ..., limit>>, and the last file was never read
C2_Witness ==
    /\ max_include_recursion = RecursionLimit
    /\ calls = <<1>>
    /\ \A f \in 1..RecursionLimit : world[f].include = <<f + 1>>
    /\ errors = <<RecursionLimitExceeded([d \in 1..RecursionLimit |-> d])>>
    /\ \A i \in DOMAIN trace :
          ~(trace[i].ev = "read" /\ trace[i].path = RecursionLimit + 1)


(***************************************************************************)
(* flatten.rs.  A MavlinkFile is [normalised_includes, mavlink]; of the    *)
(* xml::Mavlink the flattener reads version, dialect, enums and messages.  *)
(* An xml::Enum is [name, description, dev_status, entries], an entry and  *)
(* a message are opaque values here, tagged with the file they come from.  *)
(***************************************************************************)
RECURSIVE flatten_recursive(_, _, _)
RECURSIVE flatten_includes(_, _, _, _)
RECURSIVE merge_enums(_, _, _)

\* merge_enums that replaces the entries of the enum collected first
merge_enums_overwrite(collector, enums, i) ==
    IF i > Len(enums) THEN collector
    ELSE LET enum_ == enums[i]
             next ==
               IF enum_.name \in DOMAIN collector.enum_index
               THEN LET idx == collector.enum_index[enum_.name]
                    IN  [collector EXCEPT !.enums[idx] = enum_]
               ELSE LET idx == Len(collector.enums) + 1
                    IN  [collector EXCEPT
                           !.enums = Append(@, enum_),
                           !.enum_index =
                              [n \in DOMAIN @ \cup {enum_.name} |->
                                 IF n = enum_.name THEN idx ELSE @[n]]]
         IN  merge_enums(next, enums, i + 1)

\* for enum_ in &enums.0 { ... }: merge into the collector or push
merge_enums(collector, enums, i) ==
    IF i > Len(enums) THEN collector
    ELSE LET enum_ == enums[i]
             next ==
               IF enum_.name \in DOMAIN collector.enum_index
               THEN LET idx == collector.enum_index[enum_.name]
                    IN  [collector EXCEPT !.enums[idx].entries = @ \o enum_.entries]
               ELSE LET idx == Len(collector.enums) + 1
                    IN  [collector EXCEPT
                           !.enums = Append(@, enum_),
                           !.enum_index =
                              [n \in DOMAIN @ \cup {enum_.name} |->
                                 IF n = enum_.name THEN idx ELSE @[n]]]
         IN  merge_enums(next, enums, i + 1)

\* for include in &module.normalised_includes { ... }
flatten_includes(collector, fs, includes, i) ==
    IF i > Len(includes) THEN collector
    ELSE LET include == includes[i]
             next ==
               IF include \notin DOMAIN fs
               THEN [collector EXCEPT !.panicked = TRUE]
               ELSE IF include \notin collector.processed
               THEN flatten_recursive(
                        [collector EXCEPT !.processed = @ \cup {include}],
                        fs, include)
               ELSE collector
         IN  IF next.panicked THEN next
             ELSE flatten_includes(next, fs, includes, i + 1)

\* flatten_recursive with a file's own items collected before its includes
flatten_recursive_pre_order(collector, fs, f) ==
    LET own == merge_enums(
                   [collector EXCEPT !.messages = @ \o fs[f].mavlink.messages],
                   fs[f].mavlink.enums, 1)
    IN  flatten_includes(own, fs, fs[f].normalised_includes, 1)

flatten_recursive(collector, fs, f) ==
    LET included == flatten_includes(collector, fs, fs[f].normalised_includes, 1)
    IN  IF included.panicked THEN included
        ELSE merge_enums(
                 [included EXCEPT !.messages = @ \o fs[f].mavlink.messages],
                 fs[f].mavlink.enums, 1)

\* MessageAndEnumCollector::default()
EmptyCollector ==
    [messages |-> <<>>, enums |-> <<>>, enum_index |-> EmptyMap,
     processed |-> {}, panicked |-> FALSE]

\* flatten::flatten; "panic" is one of the two expect() calls failing
flatten(fs, normalised) ==
    IF normalised \notin DOMAIN fs THEN [status |-> "panic"]
    ELSE LET collector == flatten_recursive(EmptyCollector, fs, normalised)
         IN  IF collector.panicked THEN [status |-> "panic"]
             ELSE [status   |-> "Ok",
                   path     |-> normalised,
                   version  |-> fs[normalised].mavlink.version,
                   dialect  |-> fs[normalised].mavlink.dialect,
                   enums    |-> collector.enums,
                   messages |-> collector.messages]

(***************************************************************************)
(* The inputs of flatten: what Parser::finish returns as Ok, a map closed  *)
(* under includes with an acyclic include graph.  Paths are interchange-   *)
(* able, so the files are numbered such that a file includes only files of *)
(* a smaller number.  The content of a file is one of FileContents: the    *)
(* names of its enums, in order, and the number of its messages.           *)
(***************************************************************************)
FileContents ==
    { [enums |-> <<>>,         messages |-> 1],
      [enums |-> <<"A">>,      messages |-> 0],
      [enums |-> <<"B">>,      messages |-> 1],
      [enums |-> <<"A", "B">>, messages |-> 1],
      [enums |-> <<"B", "A">>, messages |-> 2],
      [enums |-> <<"A", "A">>, messages |-> 1] }

\* the sequences over S without a repeated element
RECURSIVE Arrangements(_)
Arrangements(S) ==
    {<<>>} \cup UNION { {<<x>> \o a : a \in Arrangements(S \ {x})} : x \in S }

RECURSIVE AcyclicIncludes(_)
\* the include lists of files 1..n where a file includes only smaller files
AcyclicIncludes(n) ==
    IF n = 0 THEN {<<>>}
    ELSE {Append(w, a) : w \in AcyclicIncludes(n - 1),
                         a \in Arrangements(1..(n - 1))}

\* the xml::Mavlink of file f with content c: the i-th enum has i entries
MavlinkOf(f, c) ==
    [version  |-> f,
     dialect  |-> NFiles + f,
     enums    |-> [i \in 1..Len(c.enums) |->
                     [name        |-> c.enums[i],
                      description |-> <<f, i>>,
                      dev_status  |-> <<f, i>>,
                      entries     |-> [k \in 1..i |-> [file |-> f, enum |-> i, entry |-> k]]]],
     messages |-> [k \in 1..c.messages |-> [file |-> f, message |-> k]]]

InitFlatten ==
    /\ files \in { [f \in Files |-> [normalised_includes |-> inc[f],
                                      mavlink |-> MavlinkOf(f, con[f])]]
                   : inc \in AcyclicIncludes(NFiles),
                     con \in [Files -> FileContents] }
    /\ module = NotCalled
    /\ ParserIdle
    /\ NormaliserIdle
    /\ OtherIdle

\* flatten::flatten(&files, normalised) for one of the parsed roots
Flatten(normalised) ==
    /\ module' = flatten(files, normalised)
    /\ UNCHANGED files
    /\ UNCHANGED <<parserVars, normaliserVars, otherVars>>

NextFlatten == \E normalised \in DOMAIN files : Flatten(normalised)

SpecFlatten == InitFlatten /\ [][NextFlatten]_vars

(***************************************************************************)
(* Claims about the flattener.                                             *)
(***************************************************************************)
\* the files that file f includes
Includes(f) == Range(files[f].normalised_includes)

RECURSIVE IncludeClosure(_)
\* S and every file included, directly or not, by a file of S
IncludeClosure(S) ==
    LET T == S \cup UNION {Includes(f) : f \in S}
    IN  IF T = S THEN S ELSE IncludeClosure(T)

\* the files f includes, directly or through other files
Descendants(f) == IncludeClosure(Includes(f))

\* the positions of the messages of file f in the flattened module
MessagesAt(f) == {i \in DOMAIN module.messages : module.messages[i].file = f}

\* the positions of the entries of file f in the k-th enum of the module
EntriesAt(k, f) ==
    {i \in DOMAIN module.enums[k].entries : module.enums[k].entries[i].file = f}

\* the positions <<enum, entry>> of all entries of the flattened module
EntryPositions ==
    UNION { {<<n, i>> : i \in DOMAIN module.enums[n].entries}
            : n \in DOMAIN module.enums }

\* every position of P is smaller than every position of Q
Before(P, Q) == \A i \in P, j \in Q : i < j

\* the first position of file g in the include list of file f
FirstIndex(f, g) ==
    CHOOSE i \in DOMAIN files[f].normalised_includes :
        /\ files[f].normalised_includes[i] = g
        /\ \A j \in 1..(i - 1) : files[f].normalised_includes[j] # g

\* C3: flatten emits the messages and the enum entries of every file reachable
\* from the root exactly once each and nothing else; what a file contributes
\* comes after what the files it includes, directly or not, contribute (so
\* the root is last); and two includes of one file contribute in source
\* order when nothing else includes the later one.
C3_FlattenOrdering ==
    module.status = "Ok" =>
      LET root == module.path
          reached == IncludeClosure({root})
      IN  /\ \A i \in DOMAIN module.messages :
                LET m == module.messages[i]
                IN  /\ m.file \in reached
                    /\ m.message \in DOMAIN files[m.file].mavlink.messages
          /\ \A f \in reached : \A k \in DOMAIN files[f].mavlink.messages :
                Cardinality({i \in DOMAIN module.messages :
                               module.messages[i] = files[f].mavlink.messages[k]}) = 1
          /\ \A n \in DOMAIN module.enums : \A i \in DOMAIN module.enums[n].entries :
                LET x == module.enums[n].entries[i]
                IN  /\ x.file \in reached
                    /\ x.enum \in DOMAIN files[x.file].mavlink.enums
                    /\ files[x.file].mavlink.enums[x.enum].name = module.enums[n].name
                    /\ x.entry \in DOMAIN files[x.file].mavlink.enums[x.enum].entries
          /\ \A f \in reached : \A e \in DOMAIN files[f].mavlink.enums :
                \A k \in DOMAIN files[f].mavlink.enums[e].entries :
                    Cardinality({p \in EntryPositions :
                                   module.enums[p[1]].entries[p[2]] =
                                        files[f].mavlink.enums[e].entries[k]}) = 1
          /\ \A f \in reached : \A g \in Descendants(f) :
                /\ Before(MessagesAt(g), MessagesAt(f))
                /\ \A n \in DOMAIN module.enums : Before(EntriesAt(n, g), EntriesAt(n, f))
          /\ \A f \in reached : \A g, h \in Includes(f) :
                ( /\ FirstIndex(f, g) < FirstIndex(f, h)
                  /\ h \notin Descendants(g)
                  /\ \A o \in reached \ {f} : h \notin Includes(o) )
                => /\ Before(MessagesAt(g), MessagesAt(h))
                   /\ \A n \in DOMAIN module.enums :
                         Before(EntriesAt(n, g), EntriesAt(n, h))

\* a diamond flattened from its root: the root includes mid and then common,
\* mid includes common, every file has messages and an enum A; the messages
\* and the entries of A start with common's, go on with mid's and end with
\* the root's
C3_Witness ==
    /\ module.status = "Ok"
    /\ \E common, mid \in Files : \E n \in DOMAIN module.enums :
          /\ files[module.path].normalised_includes = <<mid, common>>
          /\ files[mid].normalised_includes = <<common>>
          /\ files[common].normalised_includes = <<>>
          /\ module.enums[n].name = "A"
          /\ \A f \in {common, mid, module.path} :
                MessagesAt(f) # {} /\ EntriesAt(n, f) # {}
          /\ module.messages[1].file = common
          /\ Last(module.messages).file = module.path
          /\ module.enums[n].entries[1].file = common
          /\ Last(module.enums[n].entries).file = module.path

RECURSIVE PostOrderVisit(_, _)
RECURSIVE PostOrderIncludes(_, _, _)
\* the post-order of the include graph below f, after the files of order
PostOrderIncludes(order, includes, i) ==
    IF i > Len(includes) THEN order
    ELSE PostOrderIncludes(
             IF Contains(order, includes[i]) THEN order
             ELSE PostOrderVisit(order, includes[i]),
             includes, i + 1)

PostOrderVisit(order, f) ==
    Append(PostOrderIncludes(order, files[f].normalised_includes, 1), f)

RECURSIVE EnumsAlong(_)
\* the enums of the files of order, file by file, each file's in source order
EnumsAlong(order) ==
    IF order = <<>> THEN <<>>
    ELSE files[Head(order)].mavlink.enums \o EnumsAlong(Tail(order))

RECURSIVE EntriesOf(_, _)
\* the entries of the enums named name of the list occ, concatenated in order
EntriesOf(occ, name) ==
    IF occ = <<>> THEN <<>>
    ELSE (IF Head(occ).name = name THEN Head(occ).entries ELSE <<>>)
         \o EntriesOf(Tail(occ), name)

\* C4: in the flattened module every enum name occurs once; the enum's
\* entries are those of every same-named enum of the visited files, in
\* traversal (post-order) order; its place in the list, its description and
\* its dev_status are those of the first same-named enum in that order.
C4_EnumMerging ==
    module.status = "Ok" =>
      LET occ == EnumsAlong(PostOrderVisit(<<>>, module.path))
          First(name) == CHOOSE i \in DOMAIN occ :
                            /\ occ[i].name = name
                            /\ \A j \in 1..(i - 1) : occ[j].name # name
      IN  /\ \A k, l \in DOMAIN module.enums :
                module.enums[k].name = module.enums[l].name => k = l
          /\ {module.enums[k].name : k \in DOMAIN module.enums}
                = {occ[i].name : i \in DOMAIN occ}
          /\ \A k \in DOMAIN module.enums :
                LET e == module.enums[k]
                IN  /\ e.entries = EntriesOf(occ, e.name)
                    /\ e.description = occ[First(e.name)].description
                    /\ e.dev_status = occ[First(e.name)].dev_status
                    /\ k = Cardinality({occ[i].name : i \in 1..First(e.name)})

\* a chain of three files that all define enum A, the root also enum B before
\* it: A comes first in the module with the entries of all three files
C4_Witness ==
    /\ module.status = "Ok"
    /\ module.path = 3
    /\ files[3].normalised_includes = <<2>>
    /\ files[2].normalised_includes = <<1>>
    /\ [i \in DOMAIN files[3].mavlink.enums |-> files[3].mavlink.enums[i].name]
          = <<"B", "A">>
    /\ Len(module.enums) = 2
    /\ module.enums[1].name = "A"
    /\ module.enums[1].description = <<1, 1>>
    /\ {module.enums[1].entries[i].file : i \in DOMAIN module.enums[1].entries}
          = {1, 2, 3}

(***************************************************************************)
(* Strings: Len, SubSeq, Tail and \o apply to them as to sequences of      *)
(* characters; a character is a string of length one.                      *)
(***************************************************************************)
DigitChars == "0123456789"

HexChars == "0123456789abcdef"

UpperChars == "ABCDEFGHIJKLMNOPQRSTUVWXYZ"

LowerChars == "abcdefghijklmnopqrstuvwxyz"

\* the characters char::is_whitespace accepts, of those the inputs use
WhitespaceChars == " "

CharAt(str, i) == SubSeq(str, i, i)

\* the set of the characters of str
CharsOf(str) == {CharAt(str, i) : i \in 1..Len(str)}

\* the position of the character c in str, whose characters are distinct
IndexOf(str, c) == CHOOSE i \in 1..Len(str) : CharAt(str, i) = c

DigitSet == CharsOf(DigitChars)

UpperSet == CharsOf(UpperChars)

WhitespaceSet == CharsOf(WhitespaceChars)

\* the value of every digit of radix 16 and below
DigitValue == [c \in CharsOf(HexChars) |-> IndexOf(HexChars, c) - 1]

\* the lowercase letter of every uppercase letter
LowerOf == [c \in UpperSet |-> CharAt(LowerChars, IndexOf(UpperChars, c))]

\* char::is_ascii_digit
is_ascii_digit(c) == c \in DigitSet

\* char::is_whitespace
is_whitespace(c) == c \in WhitespaceSet

\* char::to_ascii_lowercase
to_ascii_lowercase(c) == IF c \in UpperSet THEN LowerOf[c] ELSE c

RECURSIVE make_ascii_lowercase(_)
\* String::make_ascii_lowercase, str::to_lowercase on the ASCII inputs
make_ascii_lowercase(str) ==
    IF Len(str) = 0 THEN str
    ELSE to_ascii_lowercase(CharAt(str, 1)) \o make_ascii_lowercase(Tail(str))

\* str::strip_prefix: [some, rest]
strip_prefix(str, prefix) ==
    IF Len(str) >= Len(prefix) /\ SubSeq(str, 1, Len(prefix)) = prefix
    THEN [some |-> TRUE, rest |-> SubSeq(str, Len(prefix) + 1, Len(str))]
    ELSE [some |-> FALSE]

\* str::strip_suffix: [some, rest]
strip_suffix(str, suffix) ==
    IF Len(str) >= Len(suffix)
       /\ SubSeq(str, Len(str) - Len(suffix) + 1, Len(str)) = suffix
    THEN [some |-> TRUE, rest |-> SubSeq(str, 1, Len(str) - Len(suffix))]
    ELSE [some |-> FALSE]

\* the starts of the occurrences of pat in str that str::split(pat) cuts at:
\* found from the left, not overlapping
RECURSIVE SplitPoints(_, _, _)
SplitPoints(str, pat, from) ==
    IF from + Len(pat) - 1 > Len(str) THEN <<>>
    ELSE IF SubSeq(str, from, from + Len(pat) - 1) = pat
    THEN <<from>> \o SplitPoints(str, pat, from + Len(pat))
    ELSE SplitPoints(str, pat, from + 1)

\* str::split_once: [some, left, right], cut at the first occurrence of pat
split_once(str, pat) ==
    LET cuts == SplitPoints(str, pat, 1)
    IN  IF cuts = <<>> THEN [some |-> FALSE]
        ELSE [some  |-> TRUE,
              left  |-> SubSeq(str, 1, cuts[1] - 1),
              right |-> SubSeq(str, cuts[1] + Len(pat), Len(str))]

(***************************************************************************)
(* Unsigned integers of 64 bits (u64) are 8 bytes, least significant       *)
(* first: the values exceed the integers TLC computes with.                *)
(***************************************************************************)
U64_BYTES == 8

RECURSIVE LeBytes(_, _)
\* the k low bytes of the natural number n, least significant first
LeBytes(n, k) == IF k = 0 THEN <<>> ELSE <<n % 256>> \o LeBytes(n \div 256, k - 1)

\* the u64 of a natural number below 2^31
U64(n) == LeBytes(n, U64_BYTES)

RECURSIVE MulAddBytes(_, _, _, _)
\* bytes * m + carry, byte by byte from position i; m and carry below 2^16
MulAddBytes(bytes, m, carry, i) ==
    IF i > Len(bytes) THEN [bytes |-> <<>>, carry |-> carry]
    ELSE LET t == bytes[i] * m + carry
             rest == MulAddBytes(bytes, m, t \div 256, i + 1)
         IN  [bytes |-> <<t % 256>> \o rest.bytes, carry |-> rest.carry]

\* u64::checked_mul by a small factor followed by u64::checked_add of a small
\* term: [ok, val], ok FALSE on overflow
checked_mul_add(v, m, a) ==
    LET r == MulAddBytes(v, m, a, 1)
    IN  IF r.carry = 0 THEN [ok |-> TRUE, val |-> r.bytes] ELSE [ok |-> FALSE]

RECURSIVE AddBytes(_, _, _, _)
\* a + b + carry, byte by byte from position i
AddBytes(a, b, carry, i) ==
    IF i > Len(a) THEN [bytes |-> <<>>, carry |-> carry]
    ELSE LET t == a[i] + b[i] + carry
             rest == AddBytes(a, b, t \div 256, i + 1)
         IN  [bytes |-> <<t % 256>> \o rest.bytes, carry |-> rest.carry]

\* u64::checked_add
checked_add(a, b) ==
    LET r == AddBytes(a, b, 0, 1)
    IN  IF r.carry = 0 THEN [ok |-> TRUE, val |-> r.bytes] ELSE [ok |-> FALSE]

\* u64::wrapping_add
wrapping_add(a, b) == AddBytes(a, b, 0, 1).bytes

RECURSIVE MulBytes(_, _, _)
\* u64::checked_mul: the sum over the bytes b[i] of a * b[i] * 256^(i-1)
MulBytes(a, b, i) ==
    IF i > Len(b) THEN [ok |-> TRUE, val |-> U64(0)]
    ELSE LET rest == MulBytes(a, b, i + 1)
             part == MulAddBytes(a, b[i], 0, 1)
             \* part shifted up by i - 1 bytes: what falls off must be zero
             high == SubSeq(part.bytes, U64_BYTES - (i - 1) + 1, U64_BYTES)
             shifted == [k \in 1..(i - 1) |-> 0]
                        \o SubSeq(part.bytes, 1, U64_BYTES - (i - 1))
         IN  IF b[i] = 0 THEN rest
             ELSE IF ~rest.ok \/ part.carry # 0 \/ \E k \in DOMAIN high : high[k] # 0
             THEN [ok |-> FALSE]
             ELSE checked_add(shifted, rest.val)

checked_mul(a, b) == MulBytes(a, b, 1)

RECURSIVE PowLoop(_, _, _)
\* the loop of u64::checked_pow: square and multiply, exp >= 1
PowLoop(base, exp, acc) ==
    LET acc1 == IF exp % 2 = 1 THEN checked_mul(acc, base)
                ELSE [ok |-> TRUE, val |-> acc]
        base2 == checked_mul(base, base)
    IN  IF ~acc1.ok THEN [ok |-> FALSE]
        ELSE IF exp = 1 THEN acc1
        ELSE IF ~base2.ok THEN [ok |-> FALSE]
        ELSE PowLoop(base2.val, exp \div 2, acc1.val)

\* u64::checked_pow: None ([ok |-> FALSE]) on overflow
checked_pow(base, exp) ==
    IF exp = 0 THEN [ok |-> TRUE, val |-> U64(1)] ELSE PowLoop(base, exp, U64(1))

RECURSIVE LessBytes(_, _, _)
\* a < b, compared from the most significant byte i down
LessBytes(a, b, i) ==
    IF i = 0 THEN FALSE
    ELSE IF a[i] # b[i] THEN a[i] < b[i]
    ELSE LessBytes(a, b, i - 1)

U64Less(a, b) == LessBytes(a, b, U64_BYTES)

U64LessEq(a, b) == a = b \/ U64Less(a, b)

\* u8::MAX, u16::MAX, u32::MAX and u64::MAX as u64
U8_MAX == <<255, 0, 0, 0, 0, 0, 0, 0>>

U16_MAX == <<255, 255, 0, 0, 0, 0, 0, 0>>

U32_MAX == <<255, 255, 255, 255, 0, 0, 0, 0>>

U64_MAX == <<255, 255, 255, 255, 255, 255, 255, 255>>

(***************************************************************************)
(* core::num: from_str_radix for u64 and u8.  A leading "+" is accepted,   *)
(* a "-" is an invalid digit, no digit at all is an error.                 *)
(***************************************************************************)
\* char::to_digit(radix): the digit's value, -1 if c is no digit of the radix
to_digit(c, radix) ==
    LET lower == to_ascii_lowercase(c)
    IN  IF lower \in DOMAIN DigitValue /\ DigitValue[lower] < radix
        THEN DigitValue[lower] ELSE -1

RECURSIVE ParseDigits(_, _, _, _)
\* the digits of str from position i on, accumulated onto acc
ParseDigits(str, radix, acc, i) ==
    IF i > Len(str) THEN [ok |-> TRUE, val |-> acc]
    ELSE LET digit == to_digit(CharAt(str, i), radix)
             r == checked_mul_add(acc, radix, digit)
         IN  IF digit < 0 THEN [ok |-> FALSE, err |-> "InvalidDigit"]
             ELSE IF r.ok THEN ParseDigits(str, radix, r.val, i + 1)
             ELSE [ok |-> FALSE, err |-> "PosOverflow"]

\* u64::from_str_radix
u64_from_str_radix(str, radix) ==
    IF Len(str) = 0 THEN [ok |-> FALSE, err |-> "Empty"]
    ELSE IF str \in {"+", "-"} THEN [ok |-> FALSE, err |-> "InvalidDigit"]
    ELSE IF CharAt(str, 1) = "+" THEN ParseDigits(Tail(str), radix, U64(0), 1)
    ELSE ParseDigits(str, radix, U64(0), 1)

\* str::parse::<u8>: [ok, val] with val a natural number
u8_parse(str) ==
    LET r == u64_from_str_radix(str, 10)
    IN  IF ~r.ok THEN r
        ELSE IF U64LessEq(r.val, U8_MAX) THEN [ok |-> TRUE, val |-> r.val[1]]
        ELSE [ok |-> FALSE, err |-> "PosOverflow"]

(***************************************************************************)
(* normaliser.rs: entry values.                                            *)
(***************************************************************************)
\* try_parse_python_exp_syntax taking the first two parts of any number
try_parse_python_exp_syntax_first_two(value) ==
    LET cuts == SplitPoints(value, "**", 1)
    IN  IF Len(cuts) >= 1
        THEN [some     |-> TRUE,
              base     |-> SubSeq(value, 1, cuts[1] - 1),
              exponent |-> SubSeq(value, cuts[1] + 2,
                                  IF Len(cuts) = 1 THEN Len(value) ELSE cuts[2] - 1)]
        ELSE [some |-> FALSE]

\* try_parse_python_exp_syntax: Some((base, exponent)) for exactly two parts
try_parse_python_exp_syntax(value) ==
    LET cuts == SplitPoints(value, "**", 1)
    IN  IF Len(cuts) = 1
        THEN [some     |-> TRUE,
              base     |-> SubSeq(value, 1, cuts[1] - 1),
              exponent |-> SubSeq(value, cuts[1] + 2, Len(value))]
        ELSE [some |-> FALSE]

ParseInt(err) == [ok |-> FALSE, err |-> <<"ParseInt", err>>]

\* parse_entry_value: [ok, val] or [ok, err]
parse_entry_value(raw) ==
    LET value == make_ascii_lowercase(raw)
        hex == strip_prefix(value, "0x")
        bin == strip_prefix(value, "0b")
        exp == try_parse_python_exp_syntax(value)
        num(r) == IF r.ok THEN r ELSE ParseInt(r.err)
    IN  IF \A i \in 1..Len(value) : is_ascii_digit(CharAt(value, i))
        THEN num(u64_from_str_radix(value, 10))
        ELSE IF hex.some THEN num(u64_from_str_radix(hex.rest, 16))
        ELSE IF bin.some THEN num(u64_from_str_radix(bin.rest, 2))
        ELSE IF exp.some
        THEN LET base == u64_from_str_radix(exp.base, 10)
                 e == u8_parse(exp.exponent)
             IN  IF ~base.ok THEN ParseInt(base.err)
                 ELSE IF ~e.ok THEN ParseInt(e.err)
                 ELSE LET r == checked_pow(base.val, e.val)
                      IN  IF r.ok THEN r
                          ELSE [ok |-> FALSE, err |-> <<"ExponentiationOverflowed">>]
        ELSE [ok |-> FALSE, err |-> <<"UnknownFormat">>]

(***************************************************************************)
(* model.rs: identifiers, field types and enum widths.                     *)
(***************************************************************************)
\* Option<T>
None == <<>>

Some(x) == <<x>>

\* Result<T, E>, and the third outcome of a call: a panic
Ok(v) == [status |-> "Ok", val |-> v]

Err(e) == [status |-> "Err", err |-> e]

Panic == [status |-> "panic"]

FORBIDDEN_NAMES ==
    {"break", "case", "class", "catch", "const", "continue", "debugger", "default",
     "delete", "do", "else", "export", "extends", "finally", "for", "function",
     "if", "import", "in", "instanceof", "let", "new", "return", "super", "switch",
     "this", "throw", "try", "typeof", "var", "void", "while", "with", "yield",
     "enum", "await", "implements", "package", "protected", "static", "interface",
     "private", "public", "abstract", "boolean", "byte", "char", "double", "final",
     "float", "goto", "int", "long", "native", "short", "synchronized", "transient",
     "volatile"}

\* from_str that compares the string itself with the forbidden names
Ident_from_str_case_sensitive(str) ==
    IF Len(str) = 0 \/ str = "_" THEN [ok |-> FALSE]
    ELSE IF is_ascii_digit(CharAt(str, 1)) THEN [ok |-> FALSE]
    ELSE IF \E i \in 1..Len(str) : is_whitespace(CharAt(str, i)) THEN [ok |-> FALSE]
    ELSE IF str \in FORBIDDEN_NAMES THEN [ok |-> FALSE]
    ELSE [ok |-> TRUE, val |-> str]

\* <Ident as FromStr>::from_str: [ok, val]
Ident_from_str(str) ==
    IF Len(str) = 0 \/ str = "_" THEN [ok |-> FALSE]
    ELSE IF is_ascii_digit(CharAt(str, 1)) THEN [ok |-> FALSE]
    ELSE IF \E i \in 1..Len(str) : is_whitespace(CharAt(str, i)) THEN [ok |-> FALSE]
    ELSE IF make_ascii_lowercase(str) \in FORBIDDEN_NAMES THEN [ok |-> FALSE]
    ELSE [ok |-> TRUE, val |-> str]

PrimitiveTypes ==
    {"Float", "Double", "Char", "Int8", "Uint8", "Uint8MavlinkVersion",
     "Int16", "Uint16", "Int32", "Uint32", "Int64", "Uint64"}

\* PrimitiveType::size
PrimitiveType_size(typ) ==
    CASE typ = "Float" -> 4
      [] typ = "Double" -> 8
      [] typ = "Char" -> 1
      [] typ = "Int8" -> 1
      [] typ = "Uint8" -> 1
      [] typ = "Uint8MavlinkVersion" -> 1
      [] typ = "Int16" -> 2
      [] typ = "Uint16" -> 2
      [] typ = "Int32" -> 4
      [] typ = "Uint32" -> 4
      [] typ = "Int64" -> 8
      [] typ = "Uint64" -> 8

\* <PrimitiveType as FromStr>::from_str: [ok, val]
PrimitiveType_from_str(str) ==
    CASE str = "float" -> [ok |-> TRUE, val |-> "Float"]
      [] str = "double" -> [ok |-> TRUE, val |-> "Double"]
      [] str = "char" -> [ok |-> TRUE, val |-> "Char"]
      [] str = "int8_t" -> [ok |-> TRUE, val |-> "Int8"]
      [] str = "uint8_t" -> [ok |-> TRUE, val |-> "Uint8"]
      [] str = "uint8_t_mavlink_version" -> [ok |-> TRUE, val |-> "Uint8MavlinkVersion"]
      [] str = "int16_t" -> [ok |-> TRUE, val |-> "Int16"]
      [] str = "uint16_t" -> [ok |-> TRUE, val |-> "Uint16"]
      [] str = "int32_t" -> [ok |-> TRUE, val |-> "Int32"]
      [] str = "uint32_t" -> [ok |-> TRUE, val |-> "Uint32"]
      [] str = "int64_t" -> [ok |-> TRUE, val |-> "Int64"]
      [] str = "uint64_t" -> [ok |-> TRUE, val |-> "Uint64"]
      [] OTHER -> [ok |-> FALSE]

\* FieldType::Primitive and FieldType::Array
Primitive(typ) == [kind |-> "Primitive", typ |-> typ]

Array(typ, num) == [kind |-> "Array", typ |-> typ, num |-> num]

\* <FieldType as FromStr>::from_str: [ok, val]
FieldType_from_str(str) ==
    LET without_closing_bracket == strip_suffix(str, "]")
        parts == split_once(without_closing_bracket.rest, "[")
        typ == PrimitiveType_from_str(parts.left)
        size == u8_parse(parts.right)
        prim == PrimitiveType_from_str(str)
    IN  IF without_closing_bracket.some
        THEN IF ~parts.some THEN [ok |-> FALSE]
             ELSE IF ~typ.ok THEN [ok |-> FALSE]
             ELSE IF ~size.ok THEN [ok |-> FALSE]
             ELSE [ok |-> TRUE, val |-> Array(typ.val, size.val)]
        ELSE IF prim.ok THEN [ok |-> TRUE, val |-> Primitive(prim.val)]
        ELSE [ok |-> FALSE]

\* FieldType::wire_size
FieldType_wire_size(type) ==
    IF type.kind = "Primitive" THEN PrimitiveType_size(type.typ)
    ELSE PrimitiveType_size(type.typ) * type.num

\* FieldType::primitive_type
primitive_type(type) == type.typ

\* RustSizeType and its derived order U8 < U16 < U32 < U64
RustSizeType == <<"U8", "U16", "U32", "U64">>

RustSizeRank(size) == CHOOSE i \in DOMAIN RustSizeType : RustSizeType[i] = size

RECURSIVE SumWireSizes(_)
\* the sum of the wire sizes of a sequence of IR fields
SumWireSizes(fields) ==
    IF fields = <<>> THEN 0
    ELSE FieldType_wire_size(Head(fields).type) + SumWireSizes(Tail(fields))

\* Message::wire_size
Message_wire_size(message) == SumWireSizes(message.fields \o message.extension_fields)

RECURSIVE MaxValue(_)
\* Iterator::max over the entry values; the entries are not empty
MaxValue(entries) ==
    IF Len(entries) = 1 THEN entries[1].value
    ELSE LET rest == MaxValue(Tail(entries))
         IN  IF U64Less(rest, entries[1].value) THEN entries[1].value ELSE rest

\* min_rust_size with the largest value of every width left to the next one
min_rust_size_exclusive(entries) ==
    LET max_value == MaxValue(entries)
    IN  IF U64Less(max_value, U8_MAX) THEN "U8"
        ELSE IF U64Less(max_value, U16_MAX) THEN "U16"
        ELSE IF U64Less(max_value, U32_MAX) THEN "U32"
        ELSE "U64"

\* Enum::min_rust_size; panics on an enum without entries
min_rust_size(entries) ==
    LET max_value == MaxValue(entries)
    IN  IF U64LessEq(max_value, U8_MAX) THEN "U8"
        ELSE IF U64LessEq(max_value, U16_MAX) THEN "U16"
        ELSE IF U64LessEq(max_value, U32_MAX) THEN "U32"
        ELSE "U64"

(***************************************************************************)
(* normaliser.rs: the errors.                                              *)
(***************************************************************************)
InvalidName(item, super_item, name) ==
    [kind |-> "InvalidName", item |-> item, super_item |-> super_item, name |-> name]

ItemRedefinition(item, super_item, name) ==
    [kind |-> "ItemRedefinition", item |-> item, super_item |-> super_item,
     name |-> name]

InvalidEntry(err, enum, entry) ==
    [kind |-> "InvalidEntry", err |-> err, enum |-> enum, entry |-> entry]

BitmaskWithoutValue(enum) == [kind |-> "BitmaskWithoutValue", enum |-> enum]

RepeatedEntryValue(enum, entry_1, entry_2, value) ==
    [kind |-> "RepeatedEntryValue", enum |-> enum, entry_1 |-> entry_1,
     entry_2 |-> entry_2, value |-> value]

RepeatedMessageId(msg_1, msg_2, id) ==
    [kind |-> "RepeatedMessageId", msg_1 |-> msg_1, msg_2 |-> msg_2, id |-> id]

InvalidFieldType(message, field, type) ==
    [kind |-> "InvalidFieldType", message |-> message, field |-> field, type |-> type]

InvalidEnumReference(message, field, enum) ==
    [kind |-> "InvalidEnumReference", message |-> message, field |-> field,
     enum |-> enum]

NoSubItems(item, sub_items, name) ==
    [kind |-> "NoSubItems", item |-> item, sub_items |-> sub_items, name |-> name]

FieldTypeIsIncompatibleWithEnum(message, field, enum, field_type) ==
    [kind |-> "FieldTypeIsIncompatibleWithEnum", message |-> message,
     field |-> field, enum |-> enum, field_type |-> field_type]

MessageIsTooBig(message, size, max_size) ==
    [kind |-> "MessageIsTooBig", message |-> message, size |-> size,
     max_size |-> max_size]

(***************************************************************************)
(* normaliser.rs: entries.  An xml::Entry is [name, value], value an       *)
(* Option<String>; an IR Entry is [name, value], value a u64.              *)
(***************************************************************************)
\* the u64 addition "a + 1" of the build: [panic] if it overflows and the
\* build checks overflow, the wrapped sum otherwise
AddOne(a) ==
    LET sum == AddBytes(a, U64(1), 0, 1)
    IN  IF sum.carry # 0 /\ overflow_checks THEN [panic |-> TRUE]
        ELSE [panic |-> FALSE, val |-> sum.bytes]

RECURSIVE DeriveLoop(_, _, _, _, _)
RECURSIVE DerivePush(_, _, _, _, _, _)
\* the end of one turn of the loop: next is value + 1, computed before the
\* value is pushed or after it, which panics in either place
DerivePush(enum, entries, i, values, value, next) ==
    IF next.panic THEN Panic
    ELSE DeriveLoop(enum, entries, i + 1, Append(values, value), next.val)

\* the turn of the loop for an entry with an XML value: value is what
\* parse_entry_value returned
DeriveExplicit(enum, entries, i, values, value) ==
    IF ~value.ok THEN Err(InvalidEntry(value.err, enum, entries[i].name))
    ELSE DerivePush(enum, entries, i, values, value.val, AddOne(value.val))

\* the loop of derive_enum_entry_values from entry i on
DeriveLoop(enum, entries, i, values, next_value) ==
    IF i > Len(entries) THEN Ok(values)
    ELSE IF entries[i].value # None
    THEN DeriveExplicit(enum, entries, i, values,
                        parse_entry_value(entries[i].value[1]))
    ELSE DerivePush(enum, entries, i, values, next_value, AddOne(next_value))

\* derive_enum_entry_values
derive_enum_entry_values(enum, entries) ==
    DeriveLoop(enum, entries, 1, <<>>, U64(1))

RECURSIVE EntriesLoop(_, _, _, _, _)
\* the loop of normalise_entries from entry i on; acc is its result so far,
\* which holds the allocated names and values
EntriesLoop(enum, entries, values, i, acc) ==
    IF i > Len(entries) THEN Ok(acc)
    ELSE LET name == Ident_from_str(entries[i].name)
             old == {k \in DOMAIN acc : acc[k].value = values[i]}
         IN  IF ~name.ok
             THEN Err(InvalidName("entry", Some(enum), entries[i].name))
             ELSE IF \E k \in DOMAIN acc : acc[k].name = name.val
             THEN Err(ItemRedefinition("entry", Some(enum), name.val))
             ELSE IF old # {}
             THEN Err(RepeatedEntryValue(enum, name.val,
                                         acc[CHOOSE k \in old : TRUE].name, values[i]))
             ELSE EntriesLoop(enum, entries, values, i + 1,
                              Append(acc, [name |-> name.val, value |-> values[i]]))

\* normalise_entries from the derivation on: derived is what
\* derive_enum_entry_values returned, whose error is returned as it is
EntriesWith(enum, entries, derived) ==
    IF derived.status # "Ok" THEN derived
    ELSE EntriesLoop(enum, entries, derived.val, 1, <<>>)

\* Normaliser::normalise_entries with the bitmask test after the derivation
normalise_entries_derive_first(enum, bitmask, entries) ==
    IF derive_enum_entry_values(enum, entries).status # "Ok"
    THEN derive_enum_entry_values(enum, entries)
    ELSE IF bitmask /\ \E i \in DOMAIN entries : entries[i].value = None
    THEN Err(BitmaskWithoutValue(enum))
    ELSE EntriesWith(enum, entries, derive_enum_entry_values(enum, entries))

\* Normaliser::normalise_entries
normalise_entries(enum, bitmask, entries) ==
    IF bitmask /\ \E i \in DOMAIN entries : entries[i].value = None
    THEN Err(BitmaskWithoutValue(enum))
    ELSE EntriesWith(enum, entries, derive_enum_entry_values(enum, entries))

(***************************************************************************)
(* The entry functions as a state machine: the arguments are drawn, then   *)
(* derive_enum_entry_values and normalise_entries are applied to them.     *)
(***************************************************************************)
\* the names of the entries of the tests, by position
EntryNames == <<"TEST_1", "TEST_2", "TEST_3", "TEST_4", "TEST_5", "TEST_6", "TEST_7">>

\* the XML values of the entries whose values are derived
ValuePool == {None, Some("20"), Some("30"), Some("100"), Some("0xFFFFFFFFFFFFFFFF")}

\* the entries whose names are normalised as well
NamedEntryPool ==
    [name : {"TEST_1", "TEST_2", "for"},
     value : {None, Some("2"), Some("badvalue")}]

EnumArgs ==
    {[enum |-> "TEST", bitmask |-> FALSE,
      entries |-> [i \in DOMAIN vs |-> [name |-> EntryNames[i], value |-> vs[i]]]]
        : vs \in SeqsUpTo(ValuePool, MaxEntries)}
    \cup
    [enum : {"TEST"}, bitmask : BOOLEAN,
     entries : SeqsUpTo(NamedEntryPool, MaxNamedEntries)]

InitEntries ==
    /\ overflow_checks \in BOOLEAN
    /\ enum_arg \in EnumArgs
    /\ derived_values = NotCalled
    /\ normalised_entries = NotCalled
    /\ FieldsIdle
    /\ ModuleIdle
    /\ ParserIdle
    /\ FlattenIdle
    /\ OtherIdle

DeriveEnumEntryValues ==
    /\ derived_values = NotCalled
    /\ derived_values' = derive_enum_entry_values(enum_arg.enum, enum_arg.entries)
    /\ UNCHANGED <<overflow_checks, enum_arg, normalised_entries>>
    /\ UNCHANGED <<fieldsVars, moduleVars, parserVars, flattenVars, otherVars>>

NormaliseEntries ==
    /\ normalised_entries = NotCalled
    /\ normalised_entries' =
           normalise_entries(enum_arg.enum, enum_arg.bitmask, enum_arg.entries)
    /\ UNCHANGED <<overflow_checks, enum_arg, derived_values>>
    /\ UNCHANGED <<fieldsVars, moduleVars, parserVars, flattenVars, otherVars>>

NextEntries ==
    \/ DeriveEnumEntryValues
    \/ NormaliseEntries

SpecEntries == InitEntries /\ [][NextEntries]_vars

(***************************************************************************)
(* Claims about the entry functions.                                       *)
(***************************************************************************)
\* entry i of the arguments carries an explicit XML value
Explicit(i) == enum_arg.entries[i].value # None

\* the value an explicit XML value parses to: [ok, val]
ParsedValue(i) == parse_entry_value(enum_arg.entries[i].value[1])

ExplicitValuesParse ==
    \A i \in DOMAIN enum_arg.entries : Explicit(i) => ParsedValue(i).ok

\* C8: for every entry list whose explicit values parse,
\* derive_enum_entry_values returns one value per entry in order: the parsed
\* value of an entry with an explicit value, and for an entry without one
\* the value 1 if it is the first entry and otherwise the previous entry's
\* derived value plus 1.
C8_EntryValueDerivation ==
    (derived_values # NotCalled /\ ExplicitValuesParse) =>
        /\ derived_values.status = "Ok"
        /\ Len(derived_values.val) = Len(enum_arg.entries)
        /\ \A i \in DOMAIN enum_arg.entries :
               IF Explicit(i) THEN derived_values.val[i] = ParsedValue(i).val
               ELSE IF i = 1 THEN derived_values.val[i] = U64(1)
               ELSE checked_add(derived_values.val[i - 1], U64(1))
                        = [ok |-> TRUE, val |-> derived_values.val[i]]

\* C9: normalise_entries on a bitmask enum with at least one entry without an
\* explicit XML value fails with BitmaskWithoutValue, whatever the other
\* entries contain; so a bitmask enum whose entries are accepted has only
\* entries that carried an explicit value.
C9_BitmaskNeedsValues ==
    (normalised_entries # NotCalled /\ enum_arg.bitmask) =>
        /\ (\E i \in DOMAIN enum_arg.entries : ~Explicit(i))
               => normalised_entries = Err(BitmaskWithoutValue(enum_arg.enum))
        /\ normalised_entries.status = "Ok"
               => \A i \in DOMAIN enum_arg.entries : Explicit(i)

\* a bitmask enum rejected for its one entry without a value, although another
\* entry has a value that does not parse and a third has an illegal name
C9_Witness ==
    /\ enum_arg.bitmask
    /\ Len(enum_arg.entries) = 3
    /\ \E i, j, k \in DOMAIN enum_arg.entries :
           /\ ~Explicit(i)
           /\ Explicit(j) /\ ~ParsedValue(j).ok
           /\ ~Ident_from_str(enum_arg.entries[k].name).ok
    /\ normalised_entries = Err(BitmaskWithoutValue("TEST"))

(***************************************************************************)
(* normaliser.rs: fields.  An xml::Field is [name, type, enum] with type a *)
(* String and enum an Option<String>; an IR Field is [name, type, enum]    *)
(* with type a FieldType and enum an Option<Ident>.  enums is the table    *)
(* Normaliser::enums: name -> [size].                                      *)
(***************************************************************************)
\* the lookup without the table: every legal name counts as an enum of 8 bits
enum_reference_unchecked(enums, enum) ==
    LET ident == Ident_from_str(enum)
    IN  IF ~ident.ok THEN [some |-> FALSE]
        ELSE [some |-> TRUE, name |-> ident.val, size |-> "U8"]

\* resolve_enum_reference: enum.parse::<Ident>().ok().and_then(get_key_value)
enum_reference(enums, enum) ==
    LET ident == Ident_from_str(enum)
    IN  IF ~ident.ok \/ ident.val \notin DOMAIN enums THEN [some |-> FALSE]
        ELSE [some |-> TRUE, name |-> ident.val, size |-> enums[ident.val].size]

\* resolve_enum_reference without the comparison of the widths
resolve_enum_reference_any_width(enums, enum, type, message, field) ==
    LET reference == enum_reference(enums, enum)
    IN  IF ~reference.some
        THEN Err(InvalidEnumReference(message, field, enum))
        ELSE IF primitive_type(type) \notin {"Uint8", "Int8", "Uint16", "Int16",
                                              "Uint32", "Int32", "Uint64", "Int64"}
        THEN Err(FieldTypeIsIncompatibleWithEnum(message, field, reference.name, type))
        ELSE Ok(reference.name)

\* Normaliser::resolve_enum_reference
resolve_enum_reference(enums, enum, type, message, field) ==
    LET reference == enum_reference(enums, enum)
        carrier == primitive_type(type)
        field_size == CASE carrier \in {"Uint8", "Int8"} -> "U8"
                        [] carrier \in {"Uint16", "Int16"} -> "U16"
                        [] carrier \in {"Uint32", "Int32"} -> "U32"
                        [] carrier \in {"Uint64", "Int64"} -> "U64"
                        [] OTHER -> "none"
    IN  IF ~reference.some
        THEN Err(InvalidEnumReference(message, field, enum))
        ELSE IF field_size = "none"
        THEN Err(FieldTypeIsIncompatibleWithEnum(message, field, reference.name, type))
        ELSE IF RustSizeRank(field_size) < RustSizeRank(reference.size)
        THEN Err(FieldTypeIsIncompatibleWithEnum(message, field, reference.name, type))
        ELSE Ok(reference.name)

\* normalise_field from the result of resolve_enum_reference on
FieldWithEnum(name, type, enum) ==
    IF enum.status # "Ok" THEN enum
    ELSE Ok([name |-> name, type |-> type, enum |-> Some(enum.val)])

\* normalise_field from the results of the two parses on
FieldParsed(enums, message, field, name, type) ==
    IF ~name.ok THEN Err(InvalidName("field", Some(message), field.name))
    ELSE IF ~type.ok THEN Err(InvalidFieldType(message, name.val, field.type))
    ELSE IF field.enum = None
    THEN Ok([name |-> name.val, type |-> type.val, enum |-> None])
    ELSE FieldWithEnum(name.val, type.val,
                       resolve_enum_reference(enums, field.enum[1], type.val,
                                              message, name.val))

\* Normaliser::normalise_field
normalise_field(enums, message, field) ==
    FieldParsed(enums, message, field,
                Ident_from_str(field.name), FieldType_from_str(field.type))

RECURSIVE InsertStable(_, _, _)
\* the index i put into the sorted index list, behind every index whose key
\* is not greater: what a stable sort does with equal keys
InsertStable(sorted, i, keys) ==
    IF sorted = <<>> THEN <<i>>
    ELSE IF keys[Head(sorted)] <= keys[i]
    THEN <<Head(sorted)>> \o InsertStable(Tail(sorted), i, keys)
    ELSE <<i>> \o sorted

RECURSIVE SortedIndices(_, _)
\* the indices 1..n in the order a stable sort by keys puts them
SortedIndices(keys, n) ==
    IF n = 0 THEN <<>> ELSE InsertStable(SortedIndices(keys, n - 1), n, keys)

\* slice::sort_by_key, with the key of every element given
sort_by_key(seq, keys) ==
    LET order == SortedIndices(keys, Len(seq))
    IN  [k \in DOMAIN seq |-> seq[order[k]]]

\* the key that puts, in every size class, the primitives before the arrays
field_sort_key_primitives_first(field) ==
    2 * (0 - PrimitiveType_size(field.type.typ))
        + (IF field.type.kind = "Array" THEN 1 ELSE 0)

\* the sort key with the array length counted in
field_sort_key_wire_size(field) == 0 - FieldType_wire_size(field.type)

\* the sort key of normalise_fields: Reverse(size of the primitive type)
field_sort_key(field) == 0 - PrimitiveType_size(field.type.typ)

\* total_wire_size without the extension fields
total_wire_size_regular_only(result_fields, result_extension_fields) ==
    SumWireSizes(result_fields)

\* total_wire_size of normalise_fields
total_wire_size(result_fields, result_extension_fields) ==
    SumWireSizes(result_fields \o result_extension_fields)

RECURSIVE FieldsLoop(_, _, _, _, _)
RECURSIVE FieldsPush(_, _, _, _, _, _)
\* one turn of the loop of normalise_fields: field is what normalise_field
\* returned for position i of the chain
FieldsPush(enums, message, chain, i, acc, field) ==
    IF field.status # "Ok" THEN field
    ELSE IF \E k \in DOMAIN acc : acc[k].name = field.val.name
    THEN Err(ItemRedefinition("field", Some(message), field.val.name))
    ELSE FieldsLoop(enums, message, chain, i + 1, Append(acc, field.val))

\* the loop of normalise_fields over fields.chain(ext_fields) from position i
\* on; acc holds the fields normalised so far, in the order of the chain, and
\* with them the allocated names
FieldsLoop(enums, message, chain, i, acc) ==
    IF i > Len(chain) THEN Ok(acc)
    ELSE FieldsPush(enums, message, chain, i, acc,
                    normalise_field(enums, message, chain[i]))

\* normalise_fields from the size test on
FieldsChecked(message, result_fields, result_extension_fields) ==
    IF total_wire_size(result_fields, result_extension_fields) > 255
    THEN Err(MessageIsTooBig(message,
                             total_wire_size(result_fields, result_extension_fields),
                             255))
    ELSE Ok([fields |-> result_fields,
             extension_fields |-> result_extension_fields])

\* normalise_fields from the sort on: pushed are the normalised fields in the
\* order of the XML
FieldsSorted(message, pushed, result_extension_fields) ==
    FieldsChecked(message,
                  sort_by_key(pushed,
                              [k \in DOMAIN pushed |-> field_sort_key(pushed[k])]),
                  result_extension_fields)

\* normalise_fields after its loop: all is what the loop over the chain
\* returned, whose first n fields are the regular ones
FieldsSplit(message, n, all) ==
    IF all.status # "Ok" THEN all
    ELSE FieldsSorted(message, SubSeq(all.val, 1, n),
                      SubSeq(all.val, n + 1, Len(all.val)))

\* Normaliser::normalise_fields: Ok([fields, extension_fields]) or the error
normalise_fields(enums, message, fields, extension_fields) ==
    FieldsSplit(message, Len(fields),
                FieldsLoop(enums, message, fields \o extension_fields, 1, <<>>))

(***************************************************************************)
(* normalise_fields as a state machine: the arguments are drawn, then the  *)
(* function is applied to them.                                            *)
(***************************************************************************)
\* the names of the fields, by position in the message
FieldNames == <<"f1", "f2", "f3", "f4", "f5", "f6">>

\* the XML types of the fields; the last is no field type
TypePool ==
    {"uint8_t", "uint16_t", "uint64_t", "uint32_t[2]", "uint8_t[253]", "double[100]",
     "uint8_t[256]"}

\* the messages: a list of fields and the position of <extensions/> in it
MessageArgs ==
    {[enums |-> EmptyMap, message |-> "MSG",
      fields |-> [i \in 1..cut |-> [name |-> FieldNames[i], type |-> ts[i], enum |-> None]],
      extension_fields |->
          [i \in 1..(Len(ts) - cut) |->
              [name |-> FieldNames[cut + i], type |-> ts[cut + i], enum |-> None]]]
        : <<ts, cut>> \in {tc \in SeqsUpTo(TypePool, MaxFields) \X (0..MaxFields)
                              : tc[2] <= Len(tc[1])}}

\* normalise_fields adds and multiplies sizes of at most 8 * 255 bytes: no
\* build makes a difference to it
InitFields ==
    /\ overflow_checks = FALSE
    /\ message_arg \in MessageArgs
    /\ normalised_fields = NotCalled
    /\ EntriesIdle
    /\ ModuleIdle
    /\ ParserIdle
    /\ FlattenIdle
    /\ OtherIdle

NormaliseFields ==
    /\ normalised_fields = NotCalled
    /\ normalised_fields' =
           normalise_fields(message_arg.enums, message_arg.message,
                            message_arg.fields, message_arg.extension_fields)
    /\ UNCHANGED <<overflow_checks, message_arg>>
    /\ UNCHANGED <<entriesVars, moduleVars, parserVars, flattenVars, otherVars>>

NextFields == NormaliseFields

SpecFields == InitFields /\ [][NextFields]_vars

(***************************************************************************)
(* Claims about normalise_fields.                                          *)
(***************************************************************************)
\* the source fields, regular then extension
SourceChain == message_arg.fields \o message_arg.extension_fields

\* what normalise_field makes of a source field
NormalisedSource(field) ==
    normalise_field(message_arg.enums, message_arg.message, field)

\* every source field is accepted on its own and no two share a name
FieldsWellFormed ==
    LET each == [i \in DOMAIN SourceChain |-> NormalisedSource(SourceChain[i])]
    IN  /\ \A i \in DOMAIN each : each[i].status = "Ok"
        /\ \A i, j \in DOMAIN each : i # j => each[i].val.name # each[j].val.name

RECURSIVE PayloadSum(_)
\* the sum over the source fields of primitive size times array length
PayloadSum(chain) ==
    IF chain = <<>> THEN 0
    ELSE LET type == FieldType_from_str(Head(chain).type).val
         IN  PrimitiveType_size(type.typ) * (IF type.kind = "Array" THEN type.num ELSE 1)
             + PayloadSum(Tail(chain))

\* C7: a message is accepted only if the wire sizes of its regular and
\* extension fields sum to at most 255; otherwise it is rejected with
\* MessageIsTooBig carrying that exact sum as size and max_size 255.  Every
\* accepted message has wire_size <= 255.
C7_PayloadCap ==
    /\ (normalised_fields # NotCalled /\ FieldsWellFormed) =>
           IF PayloadSum(SourceChain) <= 255
           THEN normalised_fields.status = "Ok"
           ELSE normalised_fields
                    = Err(MessageIsTooBig(message_arg.message,
                                          PayloadSum(SourceChain), 255))
    /\ normalised_fields.status = "Ok" =>
           /\ PayloadSum(SourceChain) <= 255
           /\ Message_wire_size(normalised_fields.val) <= 255

\* the message of the tests: 1 + 2 + 100 * 8 = 803 bytes
C7_Witness ==
    /\ Len(message_arg.fields) = 3
    /\ message_arg.fields[1].type = "uint8_t"
    /\ message_arg.fields[2].type = "uint16_t"
    /\ message_arg.fields[3].type = "double[100]"
    /\ message_arg.extension_fields = <<>>
    /\ normalised_fields = Err(MessageIsTooBig("MSG", 803, 255))

\* the position of an IR field among the source regular fields
SourceIndex(field) ==
    CHOOSE i \in DOMAIN message_arg.fields : message_arg.fields[i].name = field.name

\* the size of the element primitive type of an IR field
ElementSize(field) == PrimitiveType_size(primitive_type(field.type))

\* C10: the regular fields of an accepted message are a permutation of the
\* source regular fields, sorted by the size of the element primitive type
\* (array length ignored), non-increasing, fields of equal size in source
\* order; the extension fields are returned in exactly their source order and
\* are not mixed into the regular fields.
C10_FieldReorder ==
    normalised_fields.status = "Ok" =>
        LET regular == normalised_fields.val.fields
            extension == normalised_fields.val.extension_fields
        IN  /\ Len(regular) = Len(message_arg.fields)
            /\ Range(regular)
                   = {NormalisedSource(message_arg.fields[i]).val
                         : i \in DOMAIN message_arg.fields}
            /\ \A k \in 1..(Len(regular) - 1) :
                   \/ ElementSize(regular[k]) > ElementSize(regular[k + 1])
                   \/ /\ ElementSize(regular[k]) = ElementSize(regular[k + 1])
                      /\ SourceIndex(regular[k]) < SourceIndex(regular[k + 1])
            /\ extension
                   = [i \in DOMAIN message_arg.extension_fields |->
                         NormalisedSource(message_arg.extension_fields[i]).val]

\* an accepted message whose array of 4-byte elements moves in front of two
\* 1-byte fields, which keep their order, and whose 8-byte extension field
\* stays behind them
C10_Witness ==
    /\ Len(message_arg.fields) = 3
    /\ message_arg.fields[1].type = "uint8_t"
    /\ message_arg.fields[2].type = "uint32_t[2]"
    /\ message_arg.fields[3].type = "uint8_t"
    /\ Len(message_arg.extension_fields) = 1
    /\ message_arg.extension_fields[1].type = "uint64_t"
    /\ normalised_fields.status = "Ok"
    /\ normalised_fields.val.fields
           = <<[name |-> "f2", type |-> Array("Uint32", 2), enum |-> None],
               [name |-> "f1", type |-> Primitive("Uint8"), enum |-> None],
               [name |-> "f3", type |-> Primitive("Uint8"), enum |-> None]>>
    /\ normalised_fields.val.extension_fields
           = <<[name |-> "f4", type |-> Primitive("Uint64"), enum |-> None]>>

\* the pairs of positions of regular IR fields with elements of equal size
SameSizeClass(regular) ==
    {kl \in (DOMAIN regular) \X (DOMAIN regular) :
        kl[1] < kl[2] /\ ElementSize(regular[kl[1]]) = ElementSize(regular[kl[2]])}

\* C25 as claimed: among the regular IR fields with elements of equal size
\* every primitive comes before every array
C25_PrimitivesBeforeArrays ==
    normalised_fields.status = "Ok" =>
        \A kl \in SameSizeClass(normalised_fields.val.fields) :
            ~(/\ normalised_fields.val.fields[kl[1]].type.kind = "Array"
              /\ normalised_fields.val.fields[kl[2]].type.kind = "Primitive")

\* C25: the size classes come in non-increasing order of element size, and
\* among the regular IR fields with elements of equal size a primitive and
\* an array stand as they stand in the source: the array first when it is
\* first there
C25_SourceOrderInSizeClass ==
    normalised_fields.status = "Ok" =>
        /\ \A k \in 1..(Len(normalised_fields.val.fields) - 1) :
               ElementSize(normalised_fields.val.fields[k])
                   >= ElementSize(normalised_fields.val.fields[k + 1])
        /\ \A kl \in SameSizeClass(normalised_fields.val.fields) :
               SourceIndex(normalised_fields.val.fields[kl[1]])
                   < SourceIndex(normalised_fields.val.fields[kl[2]])

\* an accepted message of 255 bytes whose array of 1-byte elements stays
\* where it is in the source, between two 1-byte primitives
C25_Witness ==
    /\ Len(message_arg.fields) = 3
    /\ message_arg.fields[1].type = "uint8_t"
    /\ message_arg.fields[2].type = "uint8_t[253]"
    /\ message_arg.fields[3].type = "uint8_t"
    /\ normalised_fields.status = "Ok"
    /\ normalised_fields.val.fields
           = <<[name |-> "f1", type |-> Primitive("Uint8"), enum |-> None],
               [name |-> "f2", type |-> Array("Uint8", 253), enum |-> None],
               [name |-> "f3", type |-> Primitive("Uint8"), enum |-> None]>>

(***************************************************************************)
(* normaliser.rs: enums, messages and the module.  self is the Normaliser: *)
(* [enums, messages, allocated_message_ids, errors].  An xml::Enum is      *)
(* [name, bitmask, entries], an xml::Message [name, id, fields,            *)
(* extension_fields].  normalise_enum and normalise_message return the     *)
(* Normaliser they leave behind with their result: [self, res].            *)
(***************************************************************************)
\* HashMap::insert
Put(map, key, value) ==
    [k \in DOMAIN map \cup {key} |-> IF k = key THEN value ELSE map[k]]

\* Normaliser::default
DefaultNormaliser ==
    [enums |-> EmptyMap, messages |-> {}, allocated_message_ids |-> EmptyMap,
     errors |-> <<>>]

\* the redefinition test of normalise_enum left out
enum_is_redefined_never(self, name) == FALSE

\* normalise_enum: self.enums.contains_key(&name)
enum_is_redefined(self, name) == name \in DOMAIN self.enums

\* normalise_enum from the result of normalise_entries on
EnumWithEntries(self, name, bitmask, entries) ==
    IF entries.status # "Ok" THEN [self |-> self, res |-> entries]
    ELSE [self |-> [self EXCEPT !.enums =
                       Put(@, name, [size |-> min_rust_size(entries.val)])],
          res  |-> Ok([name |-> name, bitmask |-> bitmask, entries |-> entries.val])]

\* normalise_enum once the name is parsed
EnumWithName(self, enum, name, bitmask) ==
    IF enum_is_redefined(self, name)
    THEN [self |-> self, res |-> Err(ItemRedefinition("enum", None, name))]
    ELSE IF enum.entries = <<>>
    THEN [self |-> self, res |-> Err(NoSubItems("enum", "entries", name))]
    ELSE EnumWithEntries(self, name, bitmask,
                         normalise_entries(name, bitmask, enum.entries))

\* Normaliser::normalise_enum
normalise_enum(self, enum) ==
    IF ~Ident_from_str(enum.name).ok
    THEN [self |-> self, res |-> Err(InvalidName("enum", None, enum.name))]
    ELSE EnumWithName(self, enum, Ident_from_str(enum.name).val,
                      IF enum.bitmask = None THEN FALSE ELSE enum.bitmask[1])

\* normalise_message from the result of normalise_fields on
MessageWithFields(self, message, name, fields) ==
    IF fields.status # "Ok" THEN [self |-> self, res |-> fields]
    ELSE [self |-> self,
          res  |-> Ok([name |-> name, id |-> message.id,
                       fields |-> fields.val.fields,
                       extension_fields |-> fields.val.extension_fields])]

\* normalise_message once the name and the id are inserted: self holds them
\* and old is the name the id was allocated to before
MessageInserted(self, message, name, old) ==
    IF old # None
    THEN [self |-> self, res |-> Err(RepeatedMessageId(old[1], name, message.id))]
    ELSE IF message.fields = <<>>
    THEN [self |-> self, res |-> Err(NoSubItems("message", "fields", name))]
    ELSE MessageWithFields(self, message, name,
                           normalise_fields(self.enums, name, message.fields,
                                            message.extension_fields))

\* normalise_message once the name is parsed
MessageWithName(self, message, name) ==
    IF name \in self.messages
    THEN [self |-> self, res |-> Err(ItemRedefinition("message", None, name))]
    ELSE MessageInserted(
             [self EXCEPT !.messages = @ \cup {name},
                          !.allocated_message_ids = Put(@, message.id, name)],
             message, name,
             IF message.id \in DOMAIN self.allocated_message_ids
             THEN Some(self.allocated_message_ids[message.id]) ELSE None)

\* Normaliser::normalise_message
normalise_message(self, message) ==
    IF ~Ident_from_str(message.name).ok
    THEN [self |-> self, res |-> Err(InvalidName("message", None, message.name))]
    ELSE MessageWithName(self, message, Ident_from_str(message.name).val)

\* a normalise_module that returns the module also when errors were pushed
normalise_module_result_always_ok(self, source, enums, messages) ==
    Ok([path |-> source.path, version |-> source.version,
        dialect |-> source.dialect, enums |-> enums, messages |-> messages])

\* the end of Normaliser::normalise_module
normalise_module_result(self, source, enums, messages) ==
    IF self.errors = <<>>
    THEN Ok([path |-> source.path, version |-> source.version,
             dialect |-> source.dialect, enums |-> enums, messages |-> messages])
    ELSE Err(self.errors)

(***************************************************************************)
(* Normaliser::normalise_module as a state machine: normalise_enums takes  *)
(* the enums one by one, then normalise_messages the messages, then the    *)
(* module or the errors are returned.  A panic ends the call.              *)
(***************************************************************************)
XmlEntry(name, value) == [name |-> name, value |-> value]

XmlField(name, type, enum) == [name |-> name, type |-> type, enum |-> enum]

\* the enums of the modules: A and B are accepted (B needs 16 bits), the
\* third is named like A, C is a bitmask without a value, the last has an
\* illegal name
EnumPool ==
    {[name |-> "A", bitmask |-> None, entries |-> <<XmlEntry("X", None)>>],
     [name |-> "B", bitmask |-> None, entries |-> <<XmlEntry("X", Some("256"))>>],
     [name |-> "A", bitmask |-> Some(FALSE), entries |-> <<XmlEntry("Y", Some("2"))>>],
     [name |-> "C", bitmask |-> Some(TRUE), entries |-> <<XmlEntry("X", None)>>],
     [name |-> "for", bitmask |-> None, entries |-> <<XmlEntry("X", None)>>]}

\* the messages of the modules; they share names, ids, field names and refer
\* to the enums A, B and C and to the illegal name
MessagePool ==
    {[name |-> "M", id |-> 1,
      fields |-> <<XmlField("a", "uint8_t", Some("A"))>>,
      extension_fields |-> <<XmlField("b", "uint16_t", Some("B"))>>],
     [name |-> "N", id |-> 2,
      fields |-> <<XmlField("a", "uint8_t", None)>>,
      extension_fields |-> <<>>],
     [name |-> "N", id |-> 1,
      fields |-> <<XmlField("a", "uint8_t", None)>>,
      extension_fields |-> <<XmlField("a", "uint8_t", None)>>],
     [name |-> "P", id |-> 1,
      fields |-> <<XmlField("a", "uint8_t", Some("for"))>>,
      extension_fields |-> <<>>],
     [name |-> "Q", id |-> 3,
      fields |-> <<XmlField("a", "uint8_t", None), XmlField("b", "uint8_t", Some("C"))>>,
      extension_fields |-> <<>>],
     [name |-> "R", id |-> 4,
      fields |-> <<XmlField("a", "uint8_t", Some("B"))>>,
      extension_fields |-> <<>>]}

\* the flattened modules: at most MaxItems enums and messages together
FlatModules ==
    {[path |-> 1, version |-> Some(3), dialect |-> None,
      enums |-> em[1], messages |-> em[2]]
        : em \in {x \in SeqsUpTo(EnumPool, MaxItems) \X SeqsUpTo(MessagePool, MaxItems)
                     : Len(x[1]) + Len(x[2]) <= MaxItems}}

\* no value of the pools makes derive_enum_entry_values overflow: no build
\* makes a difference to these modules
InitNormaliser ==
    /\ overflow_checks = FALSE
    /\ flat_module \in FlatModules
    /\ normaliser = DefaultNormaliser
    /\ pending_enums = flat_module.enums
    /\ pending_messages = flat_module.messages
    /\ ir_enums = <<>>
    /\ ir_messages = <<>>
    /\ ir_module = NotCalled
    /\ EntriesIdle
    /\ FieldsIdle
    /\ ParserIdle
    /\ FlattenIdle
    /\ OtherIdle

\* one turn of the filter_map of normalise_enums
NormaliseEnum ==
    /\ ir_module = NotCalled
    /\ pending_enums # <<>>
    /\ \E r \in {normalise_enum(normaliser, Head(pending_enums))} :
           /\ normaliser' = IF r.res.status = "Err"
                            THEN [r.self EXCEPT !.errors = Append(@, r.res.err)]
                            ELSE r.self
           /\ ir_enums' = IF r.res.status = "Ok" THEN Append(ir_enums, r.res.val)
                          ELSE ir_enums
           /\ ir_module' = IF r.res.status = "panic" THEN Panic ELSE ir_module
    /\ pending_enums' = Tail(pending_enums)
    /\ UNCHANGED <<overflow_checks, flat_module, pending_messages, ir_messages>>
    /\ UNCHANGED <<entriesVars, fieldsVars, parserVars, flattenVars, otherVars>>

\* one turn of the filter_map of normalise_messages
NormaliseMessage ==
    /\ ir_module = NotCalled
    /\ pending_enums = <<>>
    /\ pending_messages # <<>>
    /\ \E r \in {normalise_message(normaliser, Head(pending_messages))} :
           /\ normaliser' = IF r.res.status = "Err"
                            THEN [r.self EXCEPT !.errors = Append(@, r.res.err)]
                            ELSE r.self
           /\ ir_messages' = IF r.res.status = "Ok" THEN Append(ir_messages, r.res.val)
                             ELSE ir_messages
           /\ ir_module' = IF r.res.status = "panic" THEN Panic ELSE ir_module
    /\ pending_messages' = Tail(pending_messages)
    /\ UNCHANGED <<overflow_checks, flat_module, pending_enums, ir_enums>>
    /\ UNCHANGED <<entriesVars, fieldsVars, parserVars, flattenVars, otherVars>>

\* the return of normalise_module
ReturnModule ==
    /\ ir_module = NotCalled
    /\ pending_enums = <<>>
    /\ pending_messages = <<>>
    /\ ir_module' = normalise_module_result(normaliser, flat_module, ir_enums, ir_messages)
    /\ UNCHANGED <<overflow_checks, flat_module, normaliser, pending_enums,
                   pending_messages, ir_enums, ir_messages>>
    /\ UNCHANGED <<entriesVars, fieldsVars, parserVars, flattenVars, otherVars>>

NextNormaliser ==
    \/ NormaliseEnum
    \/ NormaliseMessage
    \/ ReturnModule

SpecNormaliser == InitNormaliser /\ [][NextNormaliser]_vars

(***************************************************************************)
(* Claims about normalise_module.                                          *)
(***************************************************************************)
\* the fields of an IR message, regular then extension
AllFields(message) == message.fields \o message.extension_fields

\* no two positions of the sequence hold the same value
Distinct(seq) == \A i, j \in DOMAIN seq : i # j => seq[i] # seq[j]

\* C5: whenever normalise_module returns Ok, the module has pairwise distinct
\* enum names, pairwise distinct message names, pairwise distinct message
\* ids, and within every message pairwise distinct field names across
\* regular and extension fields together.
C5_Uniqueness ==
    ir_module.status = "Ok" =>
        LET m == ir_module.val
        IN  /\ Distinct([i \in DOMAIN m.enums |-> m.enums[i].name])
            /\ Distinct([i \in DOMAIN m.messages |-> m.messages[i].name])
            /\ Distinct([i \in DOMAIN m.messages |-> m.messages[i].id])
            /\ \A k \in DOMAIN m.messages :
                   Distinct([i \in DOMAIN AllFields(m.messages[k]) |->
                                AllFields(m.messages[k])[i].name])

\* a module of two enums and two messages, one with an extension field, is
\* returned
C5_Witness ==
    /\ ir_module.status = "Ok"
    /\ [i \in DOMAIN ir_module.val.enums |-> ir_module.val.enums[i].name] = <<"A", "B">>
    /\ [i \in DOMAIN ir_module.val.messages |-> ir_module.val.messages[i].name]
           = <<"M", "N">>
    /\ ir_module.val.messages[1].extension_fields # <<>>

\* the enum references of an Ok module name enums of the module
ReferencesResolve ==
    ir_module.status = "Ok" =>
        \A k \in DOMAIN ir_module.val.messages :
            \A i \in DOMAIN AllFields(ir_module.val.messages[k]) :
                LET field == AllFields(ir_module.val.messages[k])[i]
                IN  field.enum # None =>
                        \E e \in DOMAIN ir_module.val.enums :
                            ir_module.val.enums[e].name = field.enum[1]

\* field i of the chain of the next message is the first thing wrong with the
\* message, and it is a reference to a name that no accepted enum has: the
\* enum is in no module, its name is illegal, or its normalisation failed
BadReferenceAt(message, i) ==
    LET chain == message.fields \o message.extension_fields
        each == [k \in 1..i |-> [name |-> Ident_from_str(chain[k].name),
                                 type |-> FieldType_from_str(chain[k].type)]]
    IN  /\ Ident_from_str(message.name).ok
        /\ message.name \notin normaliser.messages
        /\ message.id \notin DOMAIN normaliser.allocated_message_ids
        /\ i \in DOMAIN chain
        /\ \A k \in 1..i : each[k].name.ok /\ each[k].type.ok
        /\ \A k, l \in 1..i : k # l => chain[k].name # chain[l].name
        /\ \A k \in 1..(i - 1) :
               normalise_field(normaliser.enums, message.name, chain[k]).status = "Ok"
        /\ chain[i].enum # None
        /\ \A e \in DOMAIN ir_enums : ir_enums[e].name # chain[i].enum[1]

\* a message with such a reference is reported as InvalidEnumReference and
\* is dropped
BadReferenceReported ==
    \A i \in 1..MaxFields :
        (/\ ir_module = NotCalled
         /\ pending_enums = <<>>
         /\ pending_messages # <<>>
         /\ BadReferenceAt(Head(pending_messages), i))
        => LET message == Head(pending_messages)
               field == (message.fields \o message.extension_fields)[i]
           IN  /\ normaliser'.errors
                      = Append(normaliser.errors,
                               InvalidEnumReference(message.name, field.name,
                                                    field.enum[1]))
               /\ ir_messages' = ir_messages
               /\ pending_messages' = Tail(pending_messages)

\* C6: whenever normalise_module returns Ok, every field (regular or
\* extension) that carries an enum reference names an enum of the returned
\* module; a reference to an enum that is undefined, has an illegal name or
\* failed its own normalisation is reported as InvalidEnumReference and the
\* message is dropped.
C6_EnumReferencesResolve == []ReferencesResolve /\ [][BadReferenceReported]_vars

\* the enum C fails its normalisation, the message Q refers to it in its
\* second field: both errors are returned and no module
C6_Witness ==
    /\ Len(flat_module.enums) = 1
    /\ flat_module.enums[1].name = "C"
    /\ Len(flat_module.messages) = 1
    /\ flat_module.messages[1].name = "Q"
    /\ ir_messages = <<>>
    /\ ir_module = Err(<<BitmaskWithoutValue("C"), InvalidEnumReference("Q", "b", "C")>>)

(***************************************************************************)
(* model.rs: Message::extra_crc.  crc_any::CRCu16::crc16mcrf4cc is the      *)
(* CRC-16/MCRF4XX: reflected, polynomial 0x1021 (0x8408 reversed), initial  *)
(* value 0xFFFF, no final xor.                                             *)
(***************************************************************************)
\* the ASCII codes of the characters the names and the type spellings use
AsciiCode ==
    [c \in CharsOf(" _") \cup DigitSet \cup UpperSet \cup CharsOf(LowerChars) |->
        CASE c = " " -> 32
          [] c = "_" -> 95
          [] c \in DigitSet -> 47 + IndexOf(DigitChars, c)
          [] c \in UpperSet -> 64 + IndexOf(UpperChars, c)
          [] OTHER -> 96 + IndexOf(LowerChars, c)]

\* str::as_bytes
as_bytes(str) == [i \in 1..Len(str) |-> AsciiCode[CharAt(str, i)]]

\* PrimitiveType::as_str
PrimitiveType_as_str(typ) ==
    CASE typ = "Float" -> "float"
      [] typ = "Double" -> "double"
      [] typ = "Char" -> "char"
      [] typ = "Int8" -> "int8_t"
      [] typ = "Uint8" -> "uint8_t"
      [] typ = "Uint8MavlinkVersion" -> "uint8_t"
      [] typ = "Int16" -> "int16_t"
      [] typ = "Uint16" -> "uint16_t"
      [] typ = "Int32" -> "int32_t"
      [] typ = "Uint32" -> "uint32_t"
      [] typ = "Int64" -> "int64_t"
      [] typ = "Uint64" -> "uint64_t"

RECURSIVE BitXor(_, _, _)
\* a ^ b on the n low bits
BitXor(a, b, n) ==
    IF n = 0 THEN 0
    ELSE ((a + b) % 2) + 2 * BitXor(a \div 2, b \div 2, n - 1)

\* the reversed polynomial and the initial value of CRCu16::crc16mcrf4cc
CRC16_POLY == 33800

CRC16_INIT == 65535

RECURSIVE ShiftLoop(_, _)
\* k steps of the reflected division
ShiftLoop(crc, k) ==
    IF k = 0 THEN crc
    ELSE ShiftLoop(IF crc % 2 = 1 THEN BitXor(crc \div 2, CRC16_POLY, 16)
                   ELSE crc \div 2,
                   k - 1)

\* the lookup table of the CRC: the division of every byte
CrcTable == [byte \in 0..255 |-> ShiftLoop(byte, 8)]

\* a ^ b of every two bytes
Xor8 == [a \in 0..255 |-> [b \in 0..255 |-> BitXor(a, b, 8)]]

\* one byte taken in: (crc >> 8) ^ table[(crc ^ byte) & 0xFF]
DigestByte(crc, byte) ==
    Xor8[crc \div 256][CrcTable[Xor8[crc % 256][byte]] % 256]
    + 256 * (CrcTable[Xor8[crc % 256][byte]] \div 256)

RECURSIVE digest(_, _)
\* CRCu16::digest: the bytes are taken in, one by one; crc is the 16 bit
\* register, whose value is settled before the next byte is taken in
digest(crc, bytes) ==
    IF crc \in 0..CRC16_INIT /\ bytes # <<>>
    THEN digest(DigestByte(crc, Head(bytes)), Tail(bytes))
    ELSE crc

\* extra_crc: crc.digest(&[size]) for an array
DigestArraySize(crc, type) ==
    IF type.kind = "Array" THEN digest(crc, <<type.num>>) ELSE crc

\* extra_crc: the digests of one turn of the loop
DigestField(crc, field) ==
    DigestArraySize(
        digest(digest(digest(digest(crc,
            as_bytes(PrimitiveType_as_str(field.type.typ))),
            as_bytes(" ")),
            as_bytes(field.name)),
            as_bytes(" ")),
        field.type)

RECURSIVE DigestFields(_, _)
\* extra_crc: the loop
DigestFields(crc, fields) ==
    IF fields = <<>> THEN crc
    ELSE DigestFields(DigestField(crc, Head(fields)), Tail(fields))

\* the loop of extra_crc taken over the extension fields as well
CrcFields_with_extensions(message) == message.fields \o message.extension_fields

\* extra_crc: for field in &self.fields
CrcFields(message) == message.fields

\* the last line of extra_crc with the high byte left out
fold_crc_low_byte(crcval) == crcval % 256

\* extra_crc: ((crcval & 0xFF) ^ (crcval >> 8)) as u8
fold_crc(crcval) == Xor8[crcval % 256][crcval \div 256]

\* Message::extra_crc
extra_crc(message) ==
    fold_crc(DigestFields(digest(digest(CRC16_INIT, as_bytes(message.name)),
                                 as_bytes(" ")),
                          CrcFields(message)))

(***************************************************************************)
(* extra_crc as a state machine: two Messages are drawn, then extra_crc is *)
(* applied to each.                                                        *)
(***************************************************************************)
IrField(name, type, enum) == [name |-> name, type |-> type, enum |-> enum]

IrMessage(name, id, description, fields, extension_fields) ==
    [name |-> name, id |-> id, description |-> description,
     fields |-> fields, extension_fields |-> extension_fields]

\* the fields of the messages: three named type that differ in what
\* extra_crc leaves out or spells alike, two arrays that differ in length
CrcFieldPool ==
    {IrField("type", Primitive("Uint8"), None),
     IrField("type", Primitive("Uint8MavlinkVersion"), None),
     IrField("type", Primitive("Uint8"), Some("MAV_TYPE")),
     IrField("data", Array("Uint8", 2), None),
     IrField("data", Array("Uint8", 3), None)}

\* the fields of the first message of a pair
CrcBaseFieldPool ==
    {IrField("type", Primitive("Uint8"), None),
     IrField("data", Array("Uint8", 2), None)}

CrcExtensionPool == {<<>>, <<IrField("ext", Primitive("Uint32"), None)>>}

\* test_crc_extra_one_field
OneFieldMessage ==
    IrMessage("UAVIONIX_ADSB_TRANSCEIVER_HEALTH_REPORT", 10003, None,
              <<IrField("rfHealth", Primitive("Uint8"), Some("UAVIONIX_ADSB_RF_HEALTH"))>>,
              <<>>)

\* test_crc_extra_ext_fields, before and after extension_fields.pop()
MemInfoMessage(extension_fields) ==
    IrMessage("MEMINFO", 152, None,
              <<IrField("brkval", Primitive("Uint16"), None),
                IrField("freemem", Primitive("Uint16"), None)>>,
              extension_fields)

\* test_crc_extra_mavlink_version_type
HeartbeatMessage ==
    IrMessage("HEARTBEAT", 0, None,
              <<IrField("custom_mode", Primitive("Uint32"), None),
                IrField("type", Primitive("Uint8"), None),
                IrField("autopilot", Primitive("Uint8"), None),
                IrField("base_mode", Primitive("Uint8"), None),
                IrField("system_status", Primitive("Uint8"), None),
                IrField("mavlink_version", Primitive("Uint8MavlinkVersion"), None)>>,
              <<>>)

CrcTestPairs ==
    {<<OneFieldMessage, OneFieldMessage>>,
     <<MemInfoMessage(<<IrField("freemem32", Primitive("Uint32"), None)>>),
       MemInfoMessage(<<>>)>>,
     <<HeartbeatMessage, HeartbeatMessage>>}

CrcArgs ==
    ({IrMessage("HB", 0, None, fs, <<>>) : fs \in SeqsUpTo(CrcBaseFieldPool, MaxCrcFields)}
     \X
     {IrMessage(n, d[1], d[2], fs, ext)
        : n \in {"HB", "MEM"}, d \in {<<0, None>>, <<152, Some("text")>>},
          fs \in SeqsUpTo(CrcFieldPool, MaxCrcFields), ext \in CrcExtensionPool})
    \cup CrcTestPairs

InitCrc ==
    /\ crc_arg \in CrcArgs
    /\ extra_crcs = NotCalled
    /\ IdentIdle
    /\ SizeIdle
    /\ ReferenceIdle
    /\ CodecIdle
    /\ DriverIdle
    /\ ParserIdle
    /\ FlattenIdle
    /\ NormaliserIdle

ExtraCrc ==
    /\ extra_crcs = NotCalled
    /\ extra_crcs' = <<extra_crc(crc_arg[1]), extra_crc(crc_arg[2])>>
    /\ UNCHANGED <<crc_arg, ident_arg, ident_result, size_arg, size_result,
                   reference_arg, reference_result>>
    /\ UNCHANGED <<codecVars, driverVars, parserVars, flattenVars, normaliserVars>>

NextCrc == ExtraCrc

SpecCrc == InitCrc /\ [][NextCrc]_vars

(***************************************************************************)
(* Claims about extra_crc.                                                 *)
(***************************************************************************)
\* the spelling of a primitive type in the XML, uint8_t_mavlink_version
\* taken as uint8_t
XmlSpelling(typ) ==
    IF typ = "Uint8MavlinkVersion" THEN "uint8_t"
    ELSE CHOOSE str \in {"float", "double", "char", "int8_t", "uint8_t", "int16_t",
                         "uint16_t", "int32_t", "uint32_t", "int64_t", "uint64_t"}
            : PrimitiveType_from_str(str).val = typ

\* what extra_crc may depend on
CrcKey(message) ==
    <<message.name,
      [i \in DOMAIN message.fields |->
          <<XmlSpelling(message.fields[i].type.typ), message.fields[i].name,
            IF message.fields[i].type.kind = "Array"
            THEN Some(message.fields[i].type.num) ELSE None>>]>>

\* C11: two messages that agree on the name and, field by field in order,
\* on the XML type spelling (uint8_t_mavlink_version spelled uint8_t), the
\* name and the array length of the regular fields have equal extra_crc,
\* whatever their ids, descriptions, enum references and extension fields
C11_ExtraCrcStability ==
    (extra_crcs # NotCalled /\ CrcKey(crc_arg[1]) = CrcKey(crc_arg[2]))
        => extra_crcs[1] = extra_crcs[2]

\* extra_crc was applied to two messages that agree only on what it depends
\* on: they differ in id, extension fields, an enum reference and in
\* uint8_t_mavlink_version for uint8_t
C11_Witness ==
    /\ extra_crcs # NotCalled
    /\ CrcKey(crc_arg[1]) = CrcKey(crc_arg[2])
    /\ crc_arg[1].id # crc_arg[2].id
    /\ crc_arg[1].extension_fields # crc_arg[2].extension_fields
    /\ \E i, j \in DOMAIN crc_arg[1].fields :
          /\ crc_arg[1].fields[i].enum # crc_arg[2].fields[i].enum
          /\ crc_arg[1].fields[j].type # crc_arg[2].fields[j].type

RECURSIVE CrcFieldBytes(_)
\* the bytes of the regular fields: type spelling, space, name, space and
\* the array length
CrcFieldBytes(fields) ==
    IF fields = <<>> THEN <<>>
    ELSE as_bytes(XmlSpelling(Head(fields).type.typ)) \o <<32>>
         \o as_bytes(Head(fields).name) \o <<32>>
         \o (IF Head(fields).type.kind = "Array" THEN <<Head(fields).type.num>>
             ELSE <<>>)
         \o CrcFieldBytes(Tail(fields))

CrcBytes(message) ==
    as_bytes(message.name) \o <<32>> \o CrcFieldBytes(message.fields)

\* the low byte xor the high byte of the CRC-16/MCRF4XX of the bytes
CrcOfBytes(bytes) ==
    BitXor(digest(65535, bytes) % 256, digest(65535, bytes) \div 256, 8)

\* C12: extra_crc is the low byte xor the high byte of the CRC-16/MCRF4XX of
\* name, space and per regular field type spelling, space, name, space and
\* array length; it is 4 for UAVIONIX_ADSB_TRANSCEIVER_HEALTH_REPORT with
\* rfHealth: uint8_t
C12_ExtraCrcValue ==
    extra_crcs # NotCalled =>
        /\ extra_crcs[1] = CrcOfBytes(CrcBytes(crc_arg[1]))
        /\ crc_arg[1] = OneFieldMessage => extra_crcs[1] = 4

\* extra_crc returned 4 for the message of the example
C12_Witness ==
    /\ extra_crcs # NotCalled
    /\ crc_arg[1] = OneFieldMessage
    /\ extra_crcs[1] = 4


(***************************************************************************)
(* codegen/rust/mod.rs: the emitted code of a message, ser and deser.  A   *)
(* value of the emitted struct is the sequence of its field values,        *)
(* regular then extension fields: an integer for a primitive field, a      *)
(* sequence of integers for an array; a field of an enum holds the         *)
(* discriminant of the entry or the bits of the flags.  enums maps the     *)
(* name of an enum to the IR enum.  BytesMut is the sequence of the bytes  *)
(* written, Bytes the sequence of the bytes not yet read.  The floating    *)
(* point types are left out of the values.                                 *)
(***************************************************************************)
\* the integer types of Rust: [signed, bits]
RustInt(signed, bits) == [signed |-> signed, bits |-> bits]

\* PrimitiveTypeAsRust on the integer types
PrimitiveTypeAsRust(typ) ==
    CASE typ = "Char" -> RustInt(FALSE, 8)
      [] typ = "Int8" -> RustInt(TRUE, 8)
      [] typ = "Uint8" -> RustInt(FALSE, 8)
      [] typ = "Uint8MavlinkVersion" -> RustInt(FALSE, 8)
      [] typ = "Int16" -> RustInt(TRUE, 16)
      [] typ = "Uint16" -> RustInt(FALSE, 16)
      [] typ = "Int32" -> RustInt(TRUE, 32)
      [] typ = "Uint32" -> RustInt(FALSE, 32)
      [] typ = "Int64" -> RustInt(TRUE, 64)
      [] typ = "Uint64" -> RustInt(FALSE, 64)

\* rust_size_type
rust_size_type(size) ==
    CASE size = "U8" -> RustInt(FALSE, 8)
      [] size = "U16" -> RustInt(FALSE, 16)
      [] size = "U32" -> RustInt(FALSE, 32)
      [] size = "U64" -> RustInt(FALSE, 64)

\* the values of an integer type among the integers below 2^31 in magnitude
InRange(value, int) ==
    IF int.bits >= 32 THEN int.signed \/ value >= 0
    ELSE IF int.signed
    THEN value >= 0 - 2 ^ (int.bits - 1) /\ value < 2 ^ (int.bits - 1)
    ELSE value >= 0 /\ value < 2 ^ int.bits

\* value.try_into() to the integer type int
try_into(value, int) == IF InRange(value, int) THEN Ok(value) ELSE Err("TryFromIntError")

\* Result::expect
expect(res) == IF res.status = "Ok" THEN res ELSE Panic

\* the value of an u64 that is below 2^31
RECURSIVE u64_value(_)
u64_value(bytes) ==
    IF bytes = <<>> THEN 0
    ELSE IF Tail(bytes) = <<>> THEN Head(bytes)
    ELSE Head(bytes) + 256 * u64_value(Tail(bytes))

\* put_u8, put_i8, put_u16_le, ...: the value in two's complement, the low
\* byte first, on size bytes
put_le(value, size) == LeBytes(value, size)

RECURSIVE get_le(_, _)
\* get_u8, get_i8, get_u16_le, ...: the value of bytes read as the integer
\* type, the low byte first
get_le(bytes, signed) ==
    IF Len(bytes) = 1
    THEN IF signed /\ bytes[1] >= 128 THEN bytes[1] - 256 ELSE bytes[1]
    ELSE bytes[1] + 256 * get_le(Tail(bytes), signed)

RECURSIVE remove_trailing_zeroes(_)
\* mavlink_core::utils::remove_trailing_zeroes: the length of the bytes
\* without the zero bytes at their end
remove_trailing_zeroes(bytes) ==
    IF bytes = <<>> THEN 0
    ELSE IF bytes[Len(bytes)] # 0 THEN Len(bytes)
    ELSE remove_trailing_zeroes(SubSeq(bytes, 1, Len(bytes) - 1))

RECURSIVE BitAnd(_, _, _)
\* a & b on the n low bits
BitAnd(a, b, n) ==
    IF n = 0 THEN 0
    ELSE ((a % 2) * (b % 2)) + 2 * BitAnd(a \div 2, b \div 2, n - 1)

\* a | b on the n low bits
BitOr(a, b, n) == a + b - BitAnd(a, b, n)

RECURSIVE all_bits(_, _)
\* bitflags: Self::all().bits(), the union of the declared flags
all_bits(entries, n) ==
    IF entries = <<>> THEN 0
    ELSE BitOr(u64_value(Head(entries).value), all_bits(Tail(entries), n), n)

InvalidFlag(flag_type, value) ==
    [error |-> "InvalidFlag", flag_type |-> flag_type, value |-> value]

InvalidEnum(enum_type, value) ==
    [error |-> "InvalidEnum", enum_type |-> enum_type, value |-> value]

\* ENCODED_LEN of the emitted MessageData
ENCODED_LEN(message) == Message_wire_size(message)

\* the type of the emitted enum: rust_size_type(enum.min_rust_size())
EnumRepr(enum) == rust_size_type(min_rust_size(enum.entries))

\* try_from_bits of the emitted enum: from_bits of bitflags accepts the
\* values without an undeclared bit, FromPrimitive the declared discriminants
try_from_bits(enum, value) ==
    IF enum.bitmask
    THEN IF BitAnd(value, all_bits(enum.entries, EnumRepr(enum).bits),
                   EnumRepr(enum).bits) = value
         THEN Ok(value) ELSE Err(InvalidFlag(enum.name, value))
    ELSE IF \E i \in DOMAIN enum.entries : u64_value(enum.entries[i].value) = value
    THEN Ok(value) ELSE Err(InvalidEnum(enum.name, value))

\* one element written: cursor.put_X(element) without an enum and
\* cursor.put_X(element.bits().try_into().expect("checked")) with one
SerElement(typ, enum, element) ==
    IF enum = None THEN Ok(put_le(element, PrimitiveType_size(typ)))
    ELSE IF expect(try_into(element, PrimitiveTypeAsRust(typ))).status = "Ok"
    THEN Ok(put_le(element, PrimitiveType_size(typ)))
    ELSE Panic

RECURSIVE SerArray(_, _, _, _, _)
\* for i in 0..size { cursor.put_X(...) }: the bytes of the elements from i on
SerArray(typ, enum, value, i, put) ==
    IF i > Len(value) THEN Ok(put)
    ELSE IF SerElement(typ, enum, value[i]).status # "Ok" THEN Panic
    ELSE SerArray(typ, enum, value, i + 1, put \o SerElement(typ, enum, value[i]).val)

\* the statement emitted for one field
SerField(field, value) ==
    IF field.type.kind = "Primitive"
    THEN SerElement(field.type.typ, field.enum, value)
    ELSE IF field.type.typ \in {"Uint8", "Char"} /\ field.enum = None
    THEN Ok(value)
    ELSE SerArray(field.type.typ, field.enum, value, 1, <<>>)

RECURSIVE SerFields(_, _, _, _)
RECURSIVE SerPut(_, _, _, _, _)
\* the bytes of field i go to the cursor, or the panic ends ser
SerPut(fields, values, i, cursor, put) ==
    IF put.status # "Ok" THEN Panic
    ELSE SerFields(fields, values, i + 1, cursor \o put.val)

\* the statements of the fields, regular then extension fields
SerFields(fields, values, i, cursor) ==
    IF i > Len(fields) THEN Ok(cursor)
    ELSE SerPut(fields, values, i, cursor, SerField(fields[i], values[i]))

\* the fields that ser writes
SerChain(message) == message.fields \o message.extension_fields

\* the end of ser: the length it returns with the bytes it has written
SerReturn(version, cursor) ==
    IF cursor.status # "Ok" THEN Panic
    ELSE IF version = "V2"
    THEN Ok([bytes |-> cursor.val, len |-> remove_trailing_zeroes(cursor.val)])
    ELSE Ok([bytes |-> cursor.val, len |-> Len(cursor.val)])

\* ser of the emitted MessageData; remaining is the length of the buffer
ser(message, value, version, remaining) ==
    IF remaining < ENCODED_LEN(message) THEN Panic
    ELSE SerReturn(version, SerFields(SerChain(message), value, 1, <<>>))

\* try_from_bits(cursor.get_X().try_into().expect("checked")) on the value read
DeserEnum(enum, read) ==
    IF expect(try_into(read, EnumRepr(enum))).status # "Ok" THEN Panic
    ELSE try_from_bits(enum, read)

\* one element read from its bytes
DeserElement(enums, typ, enum, bytes) ==
    IF enum = None THEN Ok(get_le(bytes, PrimitiveTypeAsRust(typ).signed))
    ELSE DeserEnum(enums[enum[1]], get_le(bytes, PrimitiveTypeAsRust(typ).signed))

RECURSIVE DeserArray(_, _, _, _, _, _)
RECURSIVE DeserArrayPush(_, _, _, _, _, _, _)
\* the element i of an array is read: the first failure ends deser
DeserArrayPush(enums, type, enum, bytes, i, value, element) ==
    IF element.status # "Ok" THEN element
    ELSE DeserArray(enums, type, enum, bytes, i + 1, Append(value, element.val))

\* [get, get, ...]: the elements of an array from i on
DeserArray(enums, type, enum, bytes, i, value) ==
    IF i > type.num THEN Ok(value)
    ELSE DeserArrayPush(enums, type, enum, bytes, i, value,
             DeserElement(enums, type.typ, enum,
                 SubSeq(bytes, (i - 1) * PrimitiveType_size(type.typ) + 1,
                        i * PrimitiveType_size(type.typ))))

\* the expression emitted for one field, on the bytes of the field
DeserField(enums, field, bytes) ==
    IF field.type.kind = "Primitive"
    THEN DeserElement(enums, field.type.typ, field.enum, bytes)
    ELSE IF field.type.typ \in {"Uint8", "Char"} /\ field.enum = None
    THEN Ok(bytes)
    ELSE DeserArray(enums, field.type, field.enum, bytes, 1, <<>>)

RECURSIVE DeserFields(_, _, _, _, _)
RECURSIVE DeserPush(_, _, _, _, _, _)
\* the field i is read: the first failure ends deser
DeserPush(enums, fields, i, cursor, value, read) ==
    IF read.status # "Ok" THEN read
    ELSE DeserFields(enums, fields, i + 1,
                     SubSeq(cursor, FieldType_wire_size(fields[i].type) + 1, Len(cursor)),
                     Append(value, read.val))

\* Ok(Self { field: ..., }): the fields are read in the order of ser
DeserFields(enums, fields, i, cursor, value) ==
    IF i > Len(fields) THEN Ok(value)
    ELSE DeserPush(enums, fields, i, cursor, value,
             DeserField(enums, fields[i],
                        SubSeq(cursor, 1, FieldType_wire_size(fields[i].type))))

\* the payload deser reads: input, with zero bytes up to ENCODED_LEN when
\* it is shorter
Payload(input, encoded_len) ==
    IF Len(input) < encoded_len
    THEN input \o [i \in 1..(encoded_len - Len(input)) |-> 0]
    ELSE input

\* deser of the emitted MessageData
deser(enums, message, version, input) ==
    DeserFields(enums, message.fields \o message.extension_fields, 1,
                Payload(input, ENCODED_LEN(message)), <<>>)


(***************************************************************************)
(* The emitted ser and deser of the messages that the normaliser accepts:  *)
(* a message of the pool, a value of its struct, a version and a buffer    *)
(* are chosen, ser is called, and deser on the bytes that ser returned.    *)
(***************************************************************************)
\* the enums of the messages: E fits 8 bits with an entry above i8::MAX, B
\* is a bitmask of two flags
CodecXmlEnums ==
    <<[name |-> "E", bitmask |-> None,
       entries |-> <<XmlEntry("X", Some("1")), XmlEntry("Y", Some("200"))>>],
      [name |-> "B", bitmask |-> Some(TRUE),
       entries |-> <<XmlEntry("F", Some("1")), XmlEntry("G", Some("2"))>>]>>

RECURSIVE NormaliseEnums(_, _, _)
RECURSIVE NormaliseEnumsPush(_, _, _, _)
\* normalise_enums: the enum normalised joins the IR enums, its error the
\* errors
NormaliseEnumsPush(self, enums, ir, normalised) ==
    IF normalised.res.status = "Ok"
    THEN NormaliseEnums(normalised.self, enums,
                        Put(ir, normalised.res.val.name, normalised.res.val))
    ELSE NormaliseEnums([normalised.self EXCEPT !.errors = Append(@, normalised.res.err)],
                        enums, ir)

\* Normaliser::normalise_enums, the IR enums kept by their names
NormaliseEnums(self, enums, ir) ==
    IF enums = <<>> THEN [self |-> self, enums |-> ir]
    ELSE NormaliseEnumsPush(self, Tail(enums), ir, normalise_enum(self, Head(enums)))

\* the normaliser after the enums of the pool, with the IR enums
CodecNormaliser == NormaliseEnums(DefaultNormaliser, CodecXmlEnums, EmptyMap)

\* the fields of the messages: a signed integer, the enum E on an unsigned
\* carrier, on a signed carrier of its width and on an array of a wider
\* signed carrier, the bitmask, and a byte array
CodecFieldPool ==
    {XmlField("x", "int16_t", None),
     XmlField("e", "uint8_t", Some("E")),
     XmlField("s", "int8_t", Some("E")),
     XmlField("w", "int16_t[2]", Some("E")),
     XmlField("f", "uint8_t", Some("B")),
     XmlField("a", "uint8_t[2]", None)}

\* the messages: up to MaxCodecFields fields, the first n of them regular
CodecXmlMessages ==
    UNION {{[name |-> "M", id |-> 1, fields |-> SubSeq(fields, 1, n),
             extension_fields |-> SubSeq(fields, n + 1, Len(fields))]
               : n \in 0..Len(fields)}
              : fields \in SeqsUpTo(CodecFieldPool, MaxCodecFields)}

\* the IR messages of the messages that normalise_message accepts
AcceptedMessages ==
    {normalised.res.val
        : normalised \in {r \in {normalise_message(CodecNormaliser.self, message)
                                    : message \in CodecXmlMessages}
                             : r.res.status = "Ok"}}

\* the integers of the values
IntegerPool == {0, 7, 256, 0 - 2}

\* the declared entries of an enum, the sets of declared flags of a bitmask
DeclaredValues(enum) ==
    IF enum.bitmask
    THEN {value \in 0..all_bits(enum.entries, EnumRepr(enum).bits)
             : try_from_bits(enum, value).status = "Ok"}
    ELSE {u64_value(enum.entries[i].value) : i \in DOMAIN enum.entries}

\* the values of an element of a field: the integers of its type in range,
\* the values of its enum
ElementValues(enums, field) ==
    IF field.enum = None
    THEN {value \in IntegerPool : InRange(value, PrimitiveTypeAsRust(field.type.typ))}
    ELSE DeclaredValues(enums[field.enum[1]])

\* the values of a field
FieldValues(enums, field) ==
    IF field.type.kind = "Primitive" THEN ElementValues(enums, field)
    ELSE [1..field.type.num -> ElementValues(enums, field)]

RECURSIVE StructValues(_, _)
\* the values of the struct of the fields
StructValues(enums, fields) ==
    IF fields = <<>> THEN {<<>>}
    ELSE {<<value>> \o rest : value \in FieldValues(enums, Head(fields)),
                              rest \in StructValues(enums, Tail(fields))}

MavlinkVersion == {"V1", "V2"}

\* the buffers: one byte short of ENCODED_LEN, ENCODED_LEN and one byte more
BufferSlack == {0 - 1, 0, 1}

CodecArgsOf(enums, message) ==
    {[enums |-> enums, message |-> message, value |-> value, version |-> version,
      remaining |-> ENCODED_LEN(message) + slack]
        : value \in StructValues(enums, message.fields \o message.extension_fields),
          version \in MavlinkVersion, slack \in BufferSlack}

InitCodec ==
    /\ \E enums \in {CodecNormaliser.enums} : \E message \in AcceptedMessages :
           codec_arg \in CodecArgsOf(enums, message)
    /\ ser_result = NotCalled
    /\ deser_result = NotCalled
    /\ dispatch_arg = NotCalled
    /\ dispatch_result = NotCalled
    /\ FunctionsIdle
    /\ DriverIdle
    /\ ParserIdle
    /\ FlattenIdle
    /\ NormaliserIdle

\* value.ser(version, buffer)
Ser ==
    /\ ser_result = NotCalled
    /\ ser_result' = ser(codec_arg.message, codec_arg.value, codec_arg.version,
                         codec_arg.remaining)
    /\ UNCHANGED <<codec_arg, deser_result, dispatch_arg, dispatch_result>>
    /\ UNCHANGED <<functionVars, driverVars, parserVars, flattenVars, normaliserVars>>

\* deser(version, &buffer[..len]) on the length that ser returned
Deser ==
    /\ ser_result.status = "Ok"
    /\ deser_result = NotCalled
    /\ deser_result' = deser(codec_arg.enums, codec_arg.message, codec_arg.version,
                             SubSeq(ser_result.val.bytes, 1, ser_result.val.len))
    /\ UNCHANGED <<codec_arg, ser_result, dispatch_arg, dispatch_result>>
    /\ UNCHANGED <<functionVars, driverVars, parserVars, flattenVars, normaliserVars>>

NextCodec == Ser \/ Deser

SpecCodec == InitCodec /\ [][NextCodec]_vars

\* C13: for every accepted message and every value of its struct with the
\* integers in range and the enums at declared values, ser of version 2 into
\* a buffer of at least ENCODED_LEN bytes does not abort and deser of the
\* bytes up to the length returned gives Ok of the value
C13_RoundTripV2 ==
    (codec_arg.version = "V2" /\ codec_arg.remaining >= ENCODED_LEN(codec_arg.message))
        => /\ ser_result # NotCalled => ser_result.status = "Ok"
           /\ deser_result # NotCalled => deser_result = Ok(codec_arg.value)

\* the wire size of a field: the size of the primitive type times the length
\* of the array
FieldWireSize(field) ==
    PrimitiveType_size(field.type.typ)
        * (IF field.type.kind = "Array" THEN field.type.num ELSE 1)

RECURSIVE SumOfWireSizes(_)
SumOfWireSizes(fields) ==
    IF fields = <<>> THEN 0
    ELSE FieldWireSize(Head(fields)) + SumOfWireSizes(Tail(fields))

RECURSIVE BytesInOrder(_, _)
\* the bytes of the values of the fields, every field once in its place
BytesInOrder(fields, values) ==
    IF fields = <<>> THEN <<>>
    ELSE SerField(Head(fields), Head(values)).val \o BytesInOrder(Tail(fields), Tail(values))

\* C14: ENCODED_LEN is the sum of the wire sizes of the regular and the
\* extension fields; ser into a buffer of at least ENCODED_LEN bytes writes
\* exactly ENCODED_LEN bytes, every field once, regular then extension fields
\* in the order of the IR, and returns ENCODED_LEN for version 1 and a
\* length of at most ENCODED_LEN for version 2
C14_WireSizeConservation ==
    /\ ENCODED_LEN(codec_arg.message)
           = SumOfWireSizes(codec_arg.message.fields)
             + SumOfWireSizes(codec_arg.message.extension_fields)
    /\ (ser_result # NotCalled /\ codec_arg.remaining >= ENCODED_LEN(codec_arg.message))
           => /\ ser_result.status = "Ok"
              /\ Len(ser_result.val.bytes) = ENCODED_LEN(codec_arg.message)
              /\ ser_result.val.bytes
                     = BytesInOrder(codec_arg.message.fields
                                        \o codec_arg.message.extension_fields,
                                    codec_arg.value)
              /\ codec_arg.version = "V1"
                     => ser_result.val.len = ENCODED_LEN(codec_arg.message)
              /\ codec_arg.version = "V2"
                     => ser_result.val.len <= ENCODED_LEN(codec_arg.message)

(***************************************************************************)
(* Claims about the errors of normalise_module.                            *)
(***************************************************************************)
RECURSIVE NormaliseMessages(_, _, _)
RECURSIVE NormaliseMessagesPush(_, _, _, _)
\* normalise_messages: the message normalised joins the IR messages, its
\* error the errors
NormaliseMessagesPush(self, messages, ir, normalised) ==
    IF normalised.res.status = "Ok"
    THEN NormaliseMessages(normalised.self, messages, Append(ir, normalised.res.val))
    ELSE NormaliseMessages([normalised.self EXCEPT !.errors = Append(@, normalised.res.err)],
                           messages, ir)

\* Normaliser::normalise_messages
NormaliseMessages(self, messages, ir) ==
    IF messages = <<>> THEN [self |-> self, messages |-> ir]
    ELSE NormaliseMessagesPush(self, Tail(messages), ir,
                               normalise_message(self, Head(messages)))

\* the item an error is about: "enum" or "message", and its name
ErrorItem(error) ==
    CASE error.kind \in {"InvalidName", "ItemRedefinition"} ->
             IF error.super_item = None THEN <<error.item, error.name>>
             ELSE <<IF error.item = "entry" THEN "enum" ELSE "message",
                    error.super_item[1]>>
      [] error.kind = "NoSubItems" -> <<error.item, error.name>>
      [] error.kind \in {"InvalidEntry", "BitmaskWithoutValue", "RepeatedEntryValue"} ->
             <<"enum", error.enum>>
      [] error.kind = "RepeatedMessageId" -> <<"message", error.msg_2>>
      [] OTHER -> <<"message", error.message>>

\* the items of seq at the indexes of the set, in the order of seq
Pick(seq, set) ==
    LET picked[i \in 0..Len(seq)] ==
            IF i = 0 THEN <<>>
            ELSE IF i \in set THEN Append(picked[i - 1], seq[i]) ELSE picked[i - 1]
    IN  picked[Len(seq)]

NamesOf(seq) == [i \in DOMAIN seq |-> seq[i].name]

ItemsOf(class, seq) == [i \in DOMAIN seq |-> <<class, seq[i].name>>]

\* the enums at ok_enums and the messages at ok_messages are the items that
\* succeeded: the IR items are theirs, the errors are one for each other item,
\* enums then messages in the order of the source, and the module of the
\* items that succeeded alone normalises to the same IR items
SucceededAre(ok_enums, ok_messages) ==
    /\ NamesOf(ir_enums) = NamesOf(Pick(flat_module.enums, ok_enums))
    /\ NamesOf(ir_messages) = NamesOf(Pick(flat_module.messages, ok_messages))
    /\ [i \in DOMAIN normaliser.errors |-> ErrorItem(normaliser.errors[i])]
           = ItemsOf("enum", Pick(flat_module.enums,
                                  DOMAIN flat_module.enums \ ok_enums))
             \o ItemsOf("message", Pick(flat_module.messages,
                                        DOMAIN flat_module.messages \ ok_messages))
    /\ \E enums \in {NormaliseEnums(DefaultNormaliser,
                                    Pick(flat_module.enums, ok_enums), EmptyMap)} :
           /\ enums.self.errors = <<>>
           /\ \A i \in DOMAIN ir_enums : enums.enums[ir_enums[i].name] = ir_enums[i]
           /\ \E messages \in {NormaliseMessages(enums.self,
                                   Pick(flat_module.messages, ok_messages), <<>>)} :
                  /\ messages.self.errors = <<>>
                  /\ messages.messages = ir_messages
    /\ (ok_enums = DOMAIN flat_module.enums /\ ok_messages = DOMAIN flat_module.messages)
           <=> ir_module.status = "Ok"

\* C15: normalise_module takes every enum and then every message, also after
\* an item failed; every failed item adds exactly one error, enums then
\* messages in the order of the source; the items that succeed are the IR
\* items they are without the failed ones; the result is Ok exactly when no
\* item failed and Err holds the errors and no module
C15_ErrorAccumulation ==
    /\ Len(normaliser.errors) + Len(ir_enums) + Len(ir_messages)
       + Len(pending_enums) + Len(pending_messages)
           = Len(flat_module.enums) + Len(flat_module.messages)
    /\ pending_enums # <<>> => pending_messages = flat_module.messages
    /\ ir_module # NotCalled =>
           /\ pending_enums = <<>> /\ pending_messages = <<>>
           /\ \E ok_enums \in SUBSET DOMAIN flat_module.enums :
                  \E ok_messages \in SUBSET DOMAIN flat_module.messages :
                      SucceededAre(ok_enums, ok_messages)
           /\ ir_module.status = "Ok" =>
                  /\ ir_module.val.enums = ir_enums
                  /\ ir_module.val.messages = ir_messages
           /\ ir_module.status # "Ok" => ir_module = Err(normaliser.errors)

\* a module with an enum that is accepted, an enum that fails and a message
\* that fails has returned
C15_Witness ==
    /\ ir_module.status = "Err"
    /\ Len(ir_module.err) = 2
    /\ ErrorItem(ir_module.err[1])[1] = "enum"
    /\ ErrorItem(ir_module.err[2])[1] = "message"
    /\ ir_enums # <<>>

(***************************************************************************)
(* Claims about the order of the roots.                                    *)
(***************************************************************************)
RECURSIVE ParseAll(_, _, _, _)
\* for file in roots { parser.parse(file) }
ParseAll(w, lim, st, roots) ==
    IF roots = <<>> THEN st
    ELSE ParseAll(w, lim, parse(w, lim, st, Head(roots)), Tail(roots))

\* Parser::new
NewParser == [parsed |-> EmptyMap, errors |-> <<>>, inclusion_stack |-> <<>>,
              trace |-> <<>>]

\* the parser run on the roots: new, parse of every root in turn, finish
RunParser(w, lim, roots) ==
    finish(ParseAll(w, lim, NewParser, roots).parsed,
           ParseAll(w, lim, NewParser, roots).errors)

\* what a result of finish says: Ok or Err, the files of the map, the kinds
\* of the errors
Outcome(res) ==
    IF res.status = "Ok"
    THEN [status |-> "Ok", files |-> DOMAIN res.parsed, kinds |-> {}]
    ELSE [status |-> "Err", files |-> {},
          kinds |-> {res.errors[i].kind : i \in DOMAIN res.errors}]

\* the orders of the roots passed to parse
Orders(roots) ==
    {[i \in DOMAIN roots |-> roots[order[i]]] : order \in Permutations(DOMAIN roots)}

\* C16: for a World and a set of roots, the outcome of the parser (Ok or Err
\* of finish, the files of the returned map, the kinds of the errors) is the
\* same for every order in which the roots are passed to parse
C16_OrderIndependence ==
    finished =>
        \A roots \in Orders(calls) :
            Outcome(RunParser(world, max_include_recursion, roots)) = Outcome(result)

(***************************************************************************)
(* lib.rs: generate_dir and generate_one.  What the stages find in an      *)
(* input is drawn with the input: its defect is the stage that fails on    *)
(* it, "parse" (Parser::finish returns the errors), "path"                 *)
(* (normalise_path), "flatten", "normalise" (normalise_module), "name"     *)
(* (the file stem is not UTF-8), "write" (fs::write of its module fails),  *)
(* or "none".  create_dir and index_write say whether create_dir_all and   *)
(* the fs::write of mod.rs succeed.  written is the sequence of the files  *)
(* written to the output: the index of the input of a module, "mod.rs"     *)
(* for the index file.                                                     *)
(***************************************************************************)
Defects == {"none", "parse", "path", "flatten", "normalise", "name", "write"}

DriverError(kind, input) == [kind |-> kind, input |-> input]

\* the first input with one of the defects, 0 if there is none
FirstDefect(inputs, defects) ==
    IF \E i \in DOMAIN inputs : inputs[i] \in defects
    THEN CHOOSE i \in DOMAIN inputs :
             /\ inputs[i] \in defects
             /\ \A j \in 1..(i - 1) : inputs[j] \notin defects
    ELSE 0

\* generate_dir up to the loop that emits the modules: create_dir_all, the
\* parser, the loop of normalise_path and flatten, the loop of
\* normalise_module; Ok(()) stands for "go on"
BeforeEmit(arg) ==
    IF ~arg.create_dir THEN Err(DriverError("CreateDir", 0))
    ELSE IF FirstDefect(arg.inputs, {"parse"}) # 0
    THEN Err(DriverError("ParseXml", 0))
    ELSE IF FirstDefect(arg.inputs, {"path", "flatten"}) # 0
    THEN Err(DriverError(IF arg.inputs[FirstDefect(arg.inputs, {"path", "flatten"})] = "path"
                         THEN "NormalisePath" ELSE "Flattening",
                         FirstDefect(arg.inputs, {"path", "flatten"})))
    ELSE IF FirstDefect(arg.inputs, {"normalise"}) # 0
    THEN Err(DriverError("Normalisation", FirstDefect(arg.inputs, {"normalise"})))
    ELSE Ok(<<>>)

\* one turn of the loop over the normalised modules: [res, written]
EmitModule(arg, i, output) ==
    IF arg.inputs[i] = "name"
    THEN [res |-> Err(DriverError("InvalidFilename", i)), written |-> output]
    ELSE IF arg.inputs[i] = "write"
    THEN [res |-> Err(DriverError("WritingToFile", i)), written |-> output]
    ELSE [res |-> Ok(<<>>), written |-> Append(output, i)]

\* the end of generate_dir: the index file
WriteIndex(arg, output) ==
    IF arg.index_write THEN [res |-> Ok(<<>>), written |-> Append(output, "mod.rs")]
    ELSE [res |-> Err(DriverError("WritingToFile", 0)), written |-> output]

RECURSIVE snake_case_from(_, _, _, _)
\* the loop of naming::snake_case from the character i of s on
snake_case_from(s, i, state, transformed) ==
    IF i > Len(s) THEN transformed
    ELSE IF CharAt(s, i) \in UpperSet
    THEN snake_case_from(s, i + 1, "PreviousCharWasUpper",
             (IF state = "PreviousCharWasLower" THEN transformed \o "_"
              ELSE transformed) \o LowerOf[CharAt(s, i)])
    ELSE snake_case_from(s, i + 1,
             IF CharAt(s, i) = "_" THEN "PreviousCharWasUnderscore"
             ELSE "PreviousCharWasLower",
             transformed \o CharAt(s, i))

\* naming::snake_case
snake_case(s) == snake_case_from(s, 1, "Start", "")

\* Path::is_file and Path::is_dir of the output path of generate_one, which
\* is a directory ("dir"), a regular file ("file") or not there ("missing")
is_file(arg) == arg.output = "file"

is_dir(arg) == arg.output = "dir"

\* Path::join of the output path and a file name
join(path, name) == path \o "/" \o name

\* the path generate_one hands to fs::write
output_path(arg) ==
    IF is_file(arg) THEN arg.path
    ELSE join(arg.path, snake_case(arg.stem) \o ".rs")

\* fs::write creates or truncates the file and no directory: next to the
\* defect "write" of the input it fails when the directory of the path is
\* not there, as for a path under an output path that is "missing"
fs_write_ok(arg) == arg.inputs[1] # "write" /\ (is_file(arg) \/ is_dir(arg))

\* generate_one: [res, written]
generate_one(arg) ==
    IF arg.inputs[1] = "parse"
    THEN [res |-> Err(DriverError("ParseXml", 0)), written |-> <<>>]
    ELSE IF arg.inputs[1] = "path"
    THEN [res |-> Err(DriverError("NormalisePath", 1)), written |-> <<>>]
    ELSE IF arg.inputs[1] = "flatten"
    THEN [res |-> Err(DriverError("Flattening", 1)), written |-> <<>>]
    ELSE IF arg.inputs[1] = "name"
    THEN [res |-> Err(DriverError("InvalidFilename", 1)), written |-> <<>>]
    ELSE IF arg.inputs[1] = "normalise"
    THEN [res |-> Err(DriverError("Normalisation", 1)), written |-> <<>>]
    ELSE IF ~fs_write_ok(arg)
    THEN [res |-> Err(DriverError("WritingToFile", 1)), written |-> <<>>]
    ELSE [res |-> Ok(<<>>), written |-> <<output_path(arg)>>]

\* the file stems of the inputs of generate_one
StemPool == {"common", "MyDialect", "ASLUAV", "my_Dialect"}

\* what the output path of generate_one is on the disk
OutputKinds == {"dir", "file", "missing"}

\* the calls: generate_dir on up to MaxInputs files, generate_one on one
DriverArgs ==
    {[entry |-> "generate_dir", inputs |-> inputs, create_dir |-> create_dir,
      index_write |-> index_write]
        : inputs \in SeqsUpTo(Defects, MaxInputs), create_dir \in BOOLEAN,
          index_write \in BOOLEAN}
    \cup {[entry |-> "generate_one", inputs |-> <<defect>>, create_dir |-> TRUE,
           index_write |-> TRUE, path |-> "out", output |-> output, stem |-> stem]
              : defect \in Defects, output \in OutputKinds, stem \in StemPool}

InitDriver ==
    /\ driver_arg \in DriverArgs
    /\ driver_pc = "idle"
    /\ driver_next = 1
    /\ written = <<>>
    /\ driver_result = NotCalled
    /\ FunctionsIdle
    /\ CodecIdle
    /\ ParserIdle
    /\ FlattenIdle
    /\ NormaliserIdle

\* generate_dir from its call to the loop that emits the modules
GenerateDirStart ==
    /\ driver_pc = "idle"
    /\ driver_arg.entry = "generate_dir"
    /\ driver_pc' = IF BeforeEmit(driver_arg).status = "Ok" THEN "emit" ELSE "done"
    /\ driver_result' = IF BeforeEmit(driver_arg).status = "Ok" THEN driver_result
                        ELSE BeforeEmit(driver_arg)
    /\ UNCHANGED <<driver_arg, driver_next, written>>
    /\ UNCHANGED <<functionVars, codecVars, parserVars, flattenVars, normaliserVars>>

\* one turn of the loop over the normalised modules
GenerateDirEmit ==
    /\ driver_pc = "emit"
    /\ driver_next <= Len(driver_arg.inputs)
    /\ \E r \in {EmitModule(driver_arg, driver_next, written)} :
           /\ written' = r.written
           /\ driver_pc' = IF r.res.status = "Ok" THEN "emit" ELSE "done"
           /\ driver_result' = IF r.res.status = "Ok" THEN driver_result ELSE r.res
    /\ driver_next' = driver_next + 1
    /\ UNCHANGED driver_arg
    /\ UNCHANGED <<functionVars, codecVars, parserVars, flattenVars, normaliserVars>>

\* the index file and the return of generate_dir
GenerateDirIndex ==
    /\ driver_pc = "emit"
    /\ driver_next > Len(driver_arg.inputs)
    /\ \E r \in {WriteIndex(driver_arg, written)} :
           /\ written' = r.written
           /\ driver_result' = r.res
    /\ driver_pc' = "done"
    /\ UNCHANGED <<driver_arg, driver_next>>
    /\ UNCHANGED <<functionVars, codecVars, parserVars, flattenVars, normaliserVars>>

GenerateOne ==
    /\ driver_pc = "idle"
    /\ driver_arg.entry = "generate_one"
    /\ \E r \in {generate_one(driver_arg)} :
           /\ written' = r.written
           /\ driver_result' = r.res
    /\ driver_pc' = "done"
    /\ UNCHANGED <<driver_arg, driver_next>>
    /\ UNCHANGED <<functionVars, codecVars, parserVars, flattenVars, normaliserVars>>

NextDriver ==
    \/ GenerateDirStart
    \/ GenerateDirEmit
    \/ GenerateDirIndex
    \/ GenerateOne

SpecDriver == InitDriver /\ [][NextDriver]_vars

\* C17: whenever generate_dir or generate_one returns an error, no generated
\* source file and no index file has been written; every input is parsed,
\* flattened and normalised before the first file is written
C17_NoPartialOutput ==
    /\ driver_result.status = "Err" => written = <<>>
    /\ written # <<>> =>
           \A i \in DOMAIN driver_arg.inputs :
               driver_arg.inputs[i] \notin {"parse", "path", "flatten", "normalise"}

\* generate_one has returned from a call whose input has no defect
OneFileCallDone ==
    /\ driver_arg.entry = "generate_one"
    /\ driver_pc = "done"
    /\ driver_arg.inputs[1] = "none"

\* C21: generate_one on an input every stage accepts writes exactly one
\* file: <output>/<snake_case of the input file stem>.rs when the output
\* path is a directory, and the output path itself when it is not a
\* directory, be it a file that is there or a path that is not there yet
C21_OneFileOutputPath ==
    OneFileCallDone =>
        /\ driver_result.status = "Ok"
        /\ written = <<IF driver_arg.output = "dir"
                       THEN join(driver_arg.path, snake_case(driver_arg.stem) \o ".rs")
                       ELSE driver_arg.path>>

(***************************************************************************)
(* Ident::from_str on its own: a string is parsed, and the name of the     *)
(* Ident it gives is parsed again.                                         *)
(***************************************************************************)
RECURSIVE Join(_)
\* the string of a sequence of characters
Join(chars) == IF chars = <<>> THEN "" ELSE Head(chars) \o Join(Tail(chars))

\* the characters of the short strings: letters of reserved words in both
\* cases, the underscore, a digit and a space
IdentAlphabet == {"i", "f", "I", "F", "_", "1", " "}

\* longer strings: names of the MAVLink definitions, reserved words with
\* another case, with a prefix and a suffix, a digit and a space inside
IdentWords ==
    {"MAV_TYPE", "type", "For", "ENUM", "Volatile", "fora", "_for", "for_", "2for",
     "a b", "x1", "::", "time_boot_ms"}

\* the strings parsed
IdentArgs ==
    {Join(chars) : chars \in SeqsUpTo(IdentAlphabet, MaxIdentLen)}
        \cup FORBIDDEN_NAMES \cup IdentWords

InitIdent ==
    /\ ident_arg \in IdentArgs
    /\ ident_result = NotCalled
    /\ CrcIdle
    /\ SizeIdle
    /\ ReferenceIdle
    /\ CodecIdle
    /\ DriverIdle
    /\ ParserIdle
    /\ FlattenIdle
    /\ NormaliserIdle

\* ident_arg.parse::<Ident>(), and the parse of the name it holds
ParseIdent ==
    /\ ident_result = NotCalled
    /\ \E ident \in {Ident_from_str(ident_arg)} :
           ident_result' = [status |-> "done", ident |-> ident,
                            again |-> IF ident.ok THEN Ident_from_str(ident.val)
                                      ELSE ident]
    /\ UNCHANGED <<ident_arg, crc_arg, extra_crcs, size_arg, size_result,
                   reference_arg, reference_result>>
    /\ UNCHANGED <<codecVars, driverVars, parserVars, flattenVars, normaliserVars>>

NextIdent == ParseIdent

SpecIdent == InitIdent /\ [][NextIdent]_vars

\* the reserved identifiers of the glossary
ReservedIdentifiers ==
    {"abstract", "boolean", "break", "byte", "case", "catch", "char", "class",
     "const", "continue", "debugger", "default", "delete", "do", "double", "else",
     "enum", "export", "extends", "final", "finally", "float", "for", "function",
     "goto", "if", "implements", "import", "in", "instanceof", "int", "interface",
     "let", "long", "native", "new", "package", "private", "protected", "public",
     "return", "short", "static", "super", "switch", "synchronized", "this",
     "throw", "transient", "try", "typeof", "var", "void", "volatile", "while",
     "with", "yield", "await"}

\* non-empty, not the single underscore, no ASCII digit in front, no
\* whitespace, and the lowercase form is no reserved identifier
LegalIdentifier(str) ==
    /\ str # ""
    /\ str # "_"
    /\ SubSeq(str, 1, 1) \notin {"0", "1", "2", "3", "4", "5", "6", "7", "8", "9"}
    /\ \A i \in 1..Len(str) : SubSeq(str, i, i) # " "
    /\ make_ascii_lowercase(str) \notin ReservedIdentifiers

\* C18: parsing a string as an Ident succeeds exactly when the string is not
\* empty, is not "_", does not start with an ASCII digit, holds no whitespace
\* and its lowercase form is not a reserved identifier of the glossary; the
\* Ident holds the string unchanged and parsing its name gives the same Ident
C18_IdentLegality ==
    ident_result # NotCalled =>
        /\ ident_result.ident.ok <=> LegalIdentifier(ident_arg)
        /\ ident_result.ident.ok =>
               /\ ident_result.ident.val = ident_arg
               /\ ident_result.again = ident_result.ident

\* a name of the definitions was accepted, and parsed again from the Ident
C18_Witness ==
    /\ ident_result # NotCalled
    /\ ident_arg = "MAV_TYPE"
    /\ ident_result.ident = [ok |-> TRUE, val |-> "MAV_TYPE"]
    /\ ident_result.again = ident_result.ident

(***************************************************************************)
(* Enum::min_rust_size on its own, on the entries of an enum.              *)
(***************************************************************************)
\* the values of the entries: the values of the test of model.rs, which are
\* the largest value of every width and the value above it, and u64::MAX
SizeValues ==
    {U64(0), U64(1), U8_MAX, U64(256), U16_MAX, U64(65536), U32_MAX,
     <<0, 0, 0, 0, 1, 0, 0, 0>>, U64_MAX}

\* the entries of the enums
SizeArgs ==
    {[i \in DOMAIN values |-> [name |-> "TEST_1", value |-> values[i]]]
        : values \in SeqsUpTo(SizeValues, MaxSizeEntries)}

InitSize ==
    /\ size_arg \in SizeArgs
    /\ size_result = NotCalled
    /\ CrcIdle
    /\ IdentIdle
    /\ ReferenceIdle
    /\ CodecIdle
    /\ DriverIdle
    /\ ParserIdle
    /\ FlattenIdle
    /\ NormaliserIdle

\* enum.min_rust_size(): expect("enums are not empty") panics without entries
MinRustSize ==
    /\ size_result = NotCalled
    /\ size_result' = IF size_arg = <<>> THEN Panic ELSE Ok(min_rust_size(size_arg))
    /\ UNCHANGED <<size_arg, crc_arg, extra_crcs, ident_arg, ident_result,
                   reference_arg, reference_result>>
    /\ UNCHANGED <<codecVars, driverVars, parserVars, flattenVars, normaliserVars>>

NextSize == MinRustSize

SpecSize == InitSize /\ [][NextSize]_vars

\* the bytes of the unsigned integer type of a RustSizeType
SizeBytes(size) ==
    CASE size = "U8" -> 1 [] size = "U16" -> 2 [] size = "U32" -> 4 [] size = "U64" -> 8

\* the u64 is a value of the unsigned integer type of the size
FitsSize(value, size) == \A i \in DOMAIN value : i > SizeBytes(size) => value[i] = 0

\* C19: min_rust_size of an enum with entries is the smallest of U8, U16,
\* U32 and U64 that holds the largest entry value: every value fits it and
\* some value does not fit any smaller one
C19_WidthMinimality ==
    (size_result # NotCalled /\ size_arg # <<>>) =>
        /\ size_result.status = "Ok"
        /\ \A i \in DOMAIN size_arg : FitsSize(size_arg[i].value, size_result.val)
        /\ \A k \in DOMAIN RustSizeType :
               k < RustSizeRank(size_result.val) =>
                   \E i \in DOMAIN size_arg : ~FitsSize(size_arg[i].value, RustSizeType[k])

\* the enum with the entries 255 and 256 needs 16 bits
C19_Witness ==
    /\ size_arg = <<[name |-> "TEST_1", value |-> U8_MAX],
                    [name |-> "TEST_1", value |-> U64(256)]>>
    /\ size_result = Ok("U16")

(***************************************************************************)
(* Normaliser::resolve_enum_reference on its own: a field of every type    *)
(* refers to an enum of every width, or to a name that is no enum.         *)
(***************************************************************************)
\* the lengths of the array types
ReferenceArrayLengths == {1, 10}

\* the types of the field
ReferenceFieldTypes ==
    {Primitive(typ) : typ \in PrimitiveTypes}
        \cup {Array(typ, num) : typ \in PrimitiveTypes, num \in ReferenceArrayLengths}

\* the calls: self.enums holds SOME_ENUM with its width; the field names
\* it, an enum that does not exist, or a string that is no name
ReferenceArgs ==
    {[enums |-> [name \in {"SOME_ENUM"} |-> [size |-> RustSizeType[k]]],
      enum |-> enum, type |-> type, message |-> "MSG", field |-> "field"]
        : k \in DOMAIN RustSizeType, enum \in {"SOME_ENUM", "OTHER_ENUM", "for"},
          type \in ReferenceFieldTypes}

InitReference ==
    /\ reference_arg \in ReferenceArgs
    /\ reference_result = NotCalled
    /\ CrcIdle
    /\ IdentIdle
    /\ SizeIdle
    /\ CodecIdle
    /\ DriverIdle
    /\ ParserIdle
    /\ FlattenIdle
    /\ NormaliserIdle

\* self.resolve_enum_reference(enum, &type, &message, &field)
ResolveEnumReference ==
    /\ reference_result = NotCalled
    /\ reference_result' = resolve_enum_reference(reference_arg.enums, reference_arg.enum,
                                                  reference_arg.type, reference_arg.message,
                                                  reference_arg.field)
    /\ UNCHANGED <<reference_arg, crc_arg, extra_crcs, ident_arg, ident_result,
                   size_arg, size_result>>
    /\ UNCHANGED <<codecVars, driverVars, parserVars, flattenVars, normaliserVars>>

NextReference == ResolveEnumReference

SpecReference == InitReference /\ [][NextReference]_vars

\* the signed and unsigned integer types of 8, 16, 32 and 64 bits
IntegerTypes == {"Int8", "Uint8", "Int16", "Uint16", "Int32", "Uint32", "Int64", "Uint64"}

\* the bits of a RustSizeType
SizeBits(size) ==
    CASE size = "U8" -> 8 [] size = "U16" -> 16 [] size = "U32" -> 32 [] size = "U64" -> 64

\* the element type is an integer type at least as wide as the enum
CarrierFits(type, size) ==
    /\ type.typ \in IntegerTypes
    /\ 8 * PrimitiveType_size(type.typ) >= SizeBits(size)

\* C20: for a field that refers to an existing enum, resolve_enum_reference
\* succeeds exactly when the element type is a signed or unsigned integer of
\* 8, 16, 32 or 64 bits at least as wide as the enum; with char, float,
\* double, uint8_t_mavlink_version or a narrower integer it fails with
\* FieldTypeIsIncompatibleWithEnum that carries the enum and the field type
C20_CarrierCompatibility ==
    (reference_result # NotCalled /\ reference_arg.enum \in DOMAIN reference_arg.enums) =>
        IF CarrierFits(reference_arg.type, reference_arg.enums[reference_arg.enum].size)
        THEN reference_result = Ok(reference_arg.enum)
        ELSE reference_result
                 = Err([kind |-> "FieldTypeIsIncompatibleWithEnum",
                        message |-> reference_arg.message, field |-> reference_arg.field,
                        enum |-> reference_arg.enum, field_type |-> reference_arg.type])

\* a field of uint8_t that refers to an enum of 16 bits was rejected
C20_Witness ==
    /\ reference_arg.enum = "SOME_ENUM"
    /\ reference_arg.enums["SOME_ENUM"].size = "U16"
    /\ reference_arg.type = Primitive("Uint8")
    /\ reference_result.status = "Err"
    /\ reference_result.err.kind = "FieldTypeIsIncompatibleWithEnum"

(***************************************************************************)
(* The parser on Worlds with a file that fails.  The include lists of      *)
(* Worlds are closed under renaming the files and Parse takes any file,    *)
(* so the file that fails is the last one; with kind "ok" no file fails.   *)
(***************************************************************************)
FaultyWorlds ==
    { [f \in Files |-> [kind |-> IF f = NFiles THEN k ELSE "ok", include |-> w[f]]]
      : w \in IncludeLists(NFiles, MaxFaultyEdges), k \in FileKinds }

InitFaults ==
    /\ world \in FaultyWorlds
    /\ max_include_recursion \in {RecursionLimit, MAX_INCLUDE_RECURSION}
    /\ parsed = EmptyMap
    /\ errors = <<>>
    /\ inclusion_stack = <<>>
    /\ calls = <<>>
    /\ trace = <<>>
    /\ result = [status |-> "running"]
    /\ FlattenIdle
    /\ NormaliserIdle
    /\ OtherIdle

SpecFaults == InitFaults /\ [][Next]_vars

RECURSIVE WorldReachable(_, _)
\* S and every file an <include> chain of files with kind "ok" leads to
WorldReachable(w, S) ==
    LET T == S \cup UNION {Range(w[f].include) : f \in {g \in S : w[g].kind = "ok"}}
    IN  IF T = S THEN S ELSE WorldReachable(w, T)

\* C23: an I/O error (reading a file, canonicalising an include path) or an
\* XML error is about one file only: it is appended to the errors, and every
\* other file the roots lead to (the siblings of the file, the files above
\* it in the include chain, the other roots) is read and is recorded in the
\* parsed map.  The recursion limit is out of reach here.
C23_ErrorLocality ==
    max_include_recursion = MAX_INCLUDE_RECURSION =>
        \A f \in WorldReachable(world, Range(calls)) :
            /\ world[f].kind = "ok" => f \in DOMAIN parsed
            /\ world[f].kind = "xml" => Contains(errors, XmlError(f))
            /\ world[f].kind \in {"io", "nopath"} => Contains(errors, IoError(f))

\* the indices of the "include" events for a path the parsed map held already
KnownSteps == {i \in DOMAIN trace : trace[i].ev = "include" /\ trace[i].known}

\* C24: a recursion step entered for a path that is in the parsed map returns
\* at once, whatever the depth of the stack, the maximum included: the next
\* event is not the read of a file, and the RecursionLimitExceeded errors
\* are those of the steps that found the stack full for a path not yet parsed
C24_AlreadyParsedFirst ==
    /\ \A i \in KnownSteps : i < Len(trace) => trace[i + 1].ev # "read"
    /\ Len(LimitErrors) = Cardinality(AtLimit \ KnownSteps)

\* C28: when finish returns Ok(map), every include path listed for a file of
\* the map is a key of the map
C28_IncludeClosure ==
    result.status = "Ok" =>
        \A f \in DOMAIN result.parsed :
            \A i \in DOMAIN result.parsed[f].normalised_includes :
                result.parsed[f].normalised_includes[i] \in DOMAIN result.parsed

\* finish returned Ok for a map with an include in it, in a World one file
\* of which cannot be parsed and with the low recursion limit
C28_Witness ==
    /\ result.status = "Ok"
    /\ world[NFiles].kind # "ok"
    /\ max_include_recursion = RecursionLimit
    /\ \E f \in DOMAIN result.parsed : result.parsed[f].normalised_includes # <<>>

\* the number of events of trace that satisfy Test
CountEvents(Test(_)) == Cardinality({i \in DOMAIN trace : Test(trace[i])})

\* the sum of the lengths of the include lists of the set S of parsed files
RECURSIVE IncludeCount(_)
IncludeCount(S) ==
    IF S = {} THEN 0
    ELSE LET f == CHOOSE g \in S : TRUE
         IN  Len(parsed[f].normalised_includes) + IncludeCount(S \ {f})

\* C29: every parse call returns, with the inclusion stack empty; a file of
\* the parsed map was read exactly once; the recursion steps taken are one
\* for every root that could be canonicalised and one for every include of
\* every file of the parsed map, however the files include each other
C29_ParserTermination ==
    /\ inclusion_stack = <<>>
    /\ \A f \in DOMAIN parsed :
          CountEvents(LAMBDA ev : ev.ev = "read" /\ ev.path = f) = 1
    /\ CountEvents(LAMBDA ev : ev.ev = "include")
          = Cardinality({i \in DOMAIN calls : normalise_path(world, calls[i])})
            + IncludeCount(DOMAIN parsed)

\* parse calls of a file that fails and of a file that includes itself and
\* the file that fails: the former was read twice, the latter once
C29_Witness ==
    /\ calls = <<NFiles, 1>>
    /\ world[1].include = <<1, NFiles>>
    /\ world[NFiles].kind = "xml"
    /\ 1 \in DOMAIN parsed
    /\ CountEvents(LAMBDA ev : ev.ev = "read" /\ ev.path = NFiles) = 2
    /\ inclusion_stack = <<>>

(***************************************************************************)
(* parse_entry_value on its own: derive_enum_entry_values is applied to an *)
(* enum of one entry whose XML value is the string.                        *)
(***************************************************************************)
\* the characters of the short strings: digits of the three radixes, the
\* prefixes in both cases, the separator, a space and a sign
LiteralAlphabet == {"0", "1", "f", "x", "X", "b", "*", " ", "+"}

\* longer strings: the values of the tests, the largest u64 and its
\* successor in two radixes, powers at and beyond 64 bits, exponents at and
\* beyond 8 bits, prefixes in upper case, strings of no format, signs
LiteralWords ==
    {"123", "0xAA", "0b101010111", "2**16", "10**5", " 123", "2**2**2",
     "0xFFFFFFFFFFFFFFFFFFFFFFFFFFF", "18446744073709551615",
     "18446744073709551616", "0xFFFFFFFFFFFFFFFF", "0x10000000000000000",
     "0XaB", "0B11", "0b102", "2**63", "2**64", "3**41", "0**0", "1**255",
     "1**256", "2**256", "255**8", "256**8", "2***3", "2****3", "2** 3",
     "0x2**3", "badvalue", "-1", "1e3", "123 ", "0o17", "2*3", "a**2", "0x+1F",
     "+2**+3", "+12"}

LiteralArgs ==
    {[enum |-> "TEST", bitmask |-> FALSE,
      entries |-> <<[name |-> "TEST_1", value |-> Some(lit)]>>]
        : lit \in LiteralWords
                  \cup {Join(chars) : chars \in SeqsUpTo(LiteralAlphabet, MaxLiteralLen)}}

InitLiterals ==
    /\ overflow_checks \in BOOLEAN
    /\ enum_arg \in LiteralArgs
    /\ derived_values = NotCalled
    /\ normalised_entries = NotCalled
    /\ FieldsIdle
    /\ ModuleIdle
    /\ ParserIdle
    /\ FlattenIdle
    /\ OtherIdle

SpecLiterals == InitLiterals /\ [][NextEntries]_vars

\* the bytes of a product and the two bytes of its carry
WithCarry(r) == r.bytes \o LeBytes(r.carry, 2)

\* a natural number of any size as its bytes, least significant first:
\* bytes * m + a, for m and a below 2^16
BigMulAdd(bytes, m, a) == WithCarry(MulAddBytes(bytes, m, a, 1))

RECURSIVE Significant(_)
\* the bytes without the zero bytes at the most significant end
Significant(bytes) ==
    IF bytes # <<>> /\ Last(bytes) = 0 THEN Significant(Front(bytes)) ELSE bytes

\* str is a numeral of the radix: digits of the radix, at least one, after
\* at most one "+"
IsNumeral(str, radix) ==
    LET digits == IF Len(str) > 0 /\ CharAt(str, 1) = "+" THEN Tail(str) ELSE str
    IN  /\ Len(digits) > 0
        /\ \A i \in 1..Len(digits) :
               /\ CharAt(digits, i) \in DOMAIN DigitValue
               /\ DigitValue[CharAt(digits, i)] < radix

RECURSIVE NumeralLoop(_, _, _, _)
\* the number of the digits before position i is acc: the number of all
NumeralLoop(str, radix, i, acc) ==
    IF Len(acc) < 0 \/ i > Len(str) THEN acc
    ELSE NumeralLoop(str, radix, i + 1,
                     Significant(BigMulAdd(acc, radix, DigitValue[CharAt(str, i)])))

\* the number a numeral denotes
NumeralValue(str, radix) ==
    NumeralLoop(str, radix, IF CharAt(str, 1) = "+" THEN 2 ELSE 1, <<>>)

RECURSIVE BigPowLoop(_, _, _)
\* acc times base to the power k
BigPowLoop(base, k, acc) ==
    IF Len(acc) < 0 \/ k = 0 THEN acc
    ELSE BigPowLoop(base, k - 1, Significant(BigMulAdd(acc, base, 0)))

\* base to the power exp, for a base below 2^16
BigPow(base, exp) == BigPowLoop(base, exp, <<1>>)

\* the number of a byte sequence of at most two bytes
SmallNumber(bytes) ==
    (IF Len(bytes) >= 1 THEN bytes[1] ELSE 0) + 256 * (IF Len(bytes) >= 2 THEN bytes[2] ELSE 0)

\* what a number is as an entry value: itself when it fits 64 bits
ValueOrError(bytes) ==
    IF Len(bytes) <= U64_BYTES
    THEN [class |-> "value",
          val |-> [i \in 1..U64_BYTES |-> IF i <= Len(bytes) THEN bytes[i] ELSE 0]]
    ELSE [class |-> "error"]

\* base to the power exp as an entry value: 1 for the exponent 0, the base
\* itself when it is 0 or 1, beyond 64 bits from the exponent 64 on
PowerValue(base, exp) ==
    IF exp = 0 THEN ValueOrError(<<1>>)
    ELSE IF base <= 1 THEN ValueOrError(Significant(<<base>>))
    ELSE IF exp >= 8 * U64_BYTES \/ Len(BigPow(base, exp)) > U64_BYTES
    THEN [class |-> "ExponentiationOverflowed"]
    ELSE ValueOrError(BigPow(base, exp))

\* what a power is as an entry value, for a base below 2^16 and an exponent
\* of 8 bits
PowerOrError(base, exp) ==
    IF Len(base) > 2 \/ Len(exp) > 1 THEN [class |-> "error"]
    ELSE PowerValue(SmallNumber(base), SmallNumber(exp))

\* what the lower-case string s is as an entry value: a value, an error, or
\* one of the two errors that are named
LiteralMeaningLower(s) ==
    IF s = "" THEN [class |-> "error"]
    ELSE IF \A i \in 1..Len(s) : CharAt(s, i) \in DigitSet
    THEN ValueOrError(NumeralValue(s, 10))
    ELSE IF Len(s) >= 2 /\ SubSeq(s, 1, 2) \in {"0x", "0b"}
    THEN IF IsNumeral(SubSeq(s, 3, Len(s)), IF CharAt(s, 2) = "x" THEN 16 ELSE 2)
         THEN ValueOrError(NumeralValue(SubSeq(s, 3, Len(s)),
                                        IF CharAt(s, 2) = "x" THEN 16 ELSE 2))
         ELSE [class |-> "error"]
    ELSE IF Len(SplitPoints(s, "**", 1)) = 1
    THEN IF /\ IsNumeral(SubSeq(s, 1, SplitPoints(s, "**", 1)[1] - 1), 10)
            /\ IsNumeral(SubSeq(s, SplitPoints(s, "**", 1)[1] + 2, Len(s)), 10)
         THEN PowerOrError(
                  NumeralValue(SubSeq(s, 1, SplitPoints(s, "**", 1)[1] - 1), 10),
                  NumeralValue(SubSeq(s, SplitPoints(s, "**", 1)[1] + 2, Len(s)), 10))
         ELSE [class |-> "error"]
    ELSE IF Len(SplitPoints(s, "**", 1)) > 1 \/ CharAt(s, 1) \in WhitespaceSet
    THEN [class |-> "error"]
    ELSE [class |-> "UnknownFormat"]

\* the string given to parse_entry_value and what it returned
Literal == enum_arg.entries[1].value[1]

\* C26: parse_entry_value lowers the case of the string and returns the
\* base-10 value of a non-empty string of digits, the base-16 value of what
\* follows 0x, the base-2 value of what follows 0b, and base to the power
\* exponent for exactly one separator ** (the base a u64, the exponent a
\* u8); it returns an error for the empty string, for leading whitespace,
\* for more than one **, for a value beyond 64 bits (ExponentiationOverflowed
\* when it is the power that is), and UnknownFormat for every other string;
\* derive_enum_entry_values returns that value or that error
C26_EntryValueLiteral ==
    derived_values # NotCalled =>
        /\ CASE LiteralMeaningLower(make_ascii_lowercase(Literal)).class = "value" ->
                    parse_entry_value(Literal)
                        = [ok |-> TRUE,
                           val |-> LiteralMeaningLower(make_ascii_lowercase(Literal)).val]
             [] LiteralMeaningLower(make_ascii_lowercase(Literal)).class = "error" ->
                    ~parse_entry_value(Literal).ok
             [] OTHER ->
                    parse_entry_value(Literal)
                        = [ok |-> FALSE,
                           err |-> <<LiteralMeaningLower(make_ascii_lowercase(Literal)).class>>]
        /\ derived_values.status = "Ok" =>
               derived_values.val = <<parse_entry_value(Literal).val>>
        /\ derived_values.status = "Err" =>
               derived_values
                   = Err(InvalidEntry(parse_entry_value(Literal).err, "TEST", "TEST_1"))
        /\ derived_values.status \in {"Ok", "panic"} <=> parse_entry_value(Literal).ok

\* the power of the tests: 2**16 is 65536
C26_Witness ==
    /\ Literal = "2**16"
    /\ derived_values = Ok(<<U64(65536)>>)

(***************************************************************************)
(* More claims about normalise_module: the table of the message ids.       *)
(***************************************************************************)
\* the messages normalise_message was called with so far
ProcessedMessages ==
    SubSeq(flat_module.messages, 1, Len(flat_module.messages) - Len(pending_messages))

\* the positions of the messages that claimed the id: their name is legal
\* and new, so that normalise_message came to the table of the ids
Claimants(id) ==
    {i \in DOMAIN ProcessedMessages :
        /\ ProcessedMessages[i].id = id
        /\ Ident_from_str(ProcessedMessages[i].name).ok
        /\ \A j \in 1..(i - 1) : ProcessedMessages[j].name # ProcessedMessages[i].name}

\* the name of the first message that claimed the id
FirstHolder(id) ==
    ProcessedMessages[CHOOSE i \in Claimants(id) : \A j \in Claimants(id) : i <= j].name

\* C27: after any sequence of normalise_message calls the table of the ids
\* maps every id to the first message that claimed it, and every
\* RepeatedMessageId names that message as msg_1 and a later message that
\* claimed the id as msg_2
C27_FirstHolderKept ==
    normaliser # NotCalled =>
        /\ \A id \in DOMAIN normaliser.allocated_message_ids :
               normaliser.allocated_message_ids[id] = FirstHolder(id)
        /\ \A k \in DOMAIN normaliser.errors :
               normaliser.errors[k].kind = "RepeatedMessageId" =>
                   /\ normaliser.errors[k].msg_1 = FirstHolder(normaliser.errors[k].id)
                   /\ \E i \in Claimants(normaliser.errors[k].id) :
                          /\ ProcessedMessages[i].name = normaliser.errors[k].msg_2
                          /\ ProcessedMessages[i].name
                                 # FirstHolder(normaliser.errors[k].id)

(***************************************************************************)
(* More claims about the entry functions: the counter next_value.          *)
(***************************************************************************)
\* C30: for every entry list whose explicit values parse, the largest u64
\* among them or not, derive_enum_entry_values returns in every build (no
\* addition overflows, so none panics) and no returned value is wrapped: an
\* entry without a value gets more than the entry before it
C30_NoCounterOverflow ==
    (derived_values # NotCalled /\ ExplicitValuesParse) =>
        /\ derived_values.status = "Ok"
        /\ \A i \in DOMAIN enum_arg.entries :
               (i > 1 /\ ~Explicit(i)) =>
                   U64Less(derived_values.val[i - 1], derived_values.val[i])


\* ---- codegen/rust/mod.rs and naming.rs: the emitted MavMessage ----

UpperOf == [c \in CharsOf(LowerChars) |-> CharAt(UpperChars, IndexOf(LowerChars, c))]

\* char::to_uppercase and char::to_lowercase, on ASCII
to_uppercase(c) == IF c \in CharsOf(LowerChars) THEN UpperOf[c] ELSE c

to_lowercase(c) == IF c \in UpperSet THEN LowerOf[c] ELSE c

RECURSIVE PascalCase_fmt(_, _, _, _)
\* the loop of <PascalCase as Display>::fmt from the character i of the
\* snake case string on: an underscore is dropped and capitalises what follows
PascalCase_fmt(s, i, capitalize_next, f) ==
    IF i > Len(s) THEN f
    ELSE IF CharAt(s, i) = "_" THEN PascalCase_fmt(s, i + 1, TRUE, f)
    ELSE IF capitalize_next
    THEN PascalCase_fmt(s, i + 1, FALSE, f \o to_uppercase(CharAt(s, i)))
    ELSE PascalCase_fmt(s, i + 1, FALSE, f \o to_lowercase(CharAt(s, i)))

\* PascalCase(ident).to_string()
PascalCase(name) == PascalCase_fmt(snake_case(name), 1, TRUE, "")

\* format_ident!("{}", string): Ident::new panics on a string that is not an
\* identifier, as the empty string and a string that starts with a digit
format_ident(str) ==
    IF str = "" \/ is_ascii_digit(CharAt(str, 1)) THEN Panic ELSE Ok(str)

\* IdentExt::pascal_case
pascal_case(name) == format_ident(PascalCase(name))

Comma == [tok |-> ","]

RECURSIVE Separated(_)
\* #(#items),* of quote!: the items with a comma between two of them
Separated(items) ==
    IF Len(items) <= 1 THEN items
    ELSE <<Head(items), Comma>> \o Separated(Tail(items))

\* #(#items),*, of quote!: the comma after the repetition is there whether
\* or not the repetition has an item
SeparatedThenComma(items) == Separated(items) \o <<Comma>>

\* the variants between the braces of pub enum MavMessage
emit_mav_message_def(messages) ==
    SeparatedThenComma([i \in DOMAIN messages |->
        [tok |-> "variant", name |-> pascal_case(messages[i].name).val]])

RECURSIVE parse_terminated(_, _)
\* Punctuated::parse_terminated of syn from the token i on: an item, then a
\* comma, and so on; the input may end after an item or after a comma
parse_terminated(tokens, i) ==
    IF i > Len(tokens) THEN TRUE
    ELSE IF tokens[i] = Comma THEN FALSE
    ELSE IF i + 1 > Len(tokens) THEN TRUE
    ELSE tokens[i + 1] = Comma /\ parse_terminated(tokens, i + 2)

\* field_type_default_value: 0 or 0.0, and [value; size] for an array; the
\* default of a field of an enum is the DEFAULT of the emitted enum
field_type_default_value(field) ==
    IF field.enum # None THEN [DEFAULT |-> field.enum]
    ELSE IF field.type.kind = "Array" THEN [k \in 1..field.type.num |-> 0]
    ELSE 0

\* the DEFAULT of the struct of a message, in the order of the fields of ser
emit_message_default_impl(message) ==
    [i \in DOMAIN (message.fields \o message.extension_fields) |->
        field_type_default_value((message.fields \o message.extension_fields)[i])]

\* the struct emitted for a message and the constants of its MessageData
emit_message(message) ==
    [type |-> pascal_case(message.name).val,
     ID |-> message.id,
     NAME |-> message.name,
     EXTRA_CRC |-> extra_crc(message),
     DEFAULT |-> emit_message_default_impl(message),
     message |-> message]

\* the names of the types emit_module defines for the messages
TypeNames(messages) ==
    <<"MavMessage">> \o [i \in DOMAIN messages |-> pascal_case(messages[i].name).val]

\* what the compiler says to two items of one name in a module (E0428)
Rejected == [status |-> "rejected"]

\* emit_module, syn::parse2(stream).expect(..) of lib.rs and the compiler, on
\* the messages of a module: a panic of the generator, a module that does not
\* compile, or the variants of MavMessage and the structs in message order
emit_module(messages) ==
    IF \E i \in DOMAIN messages : pascal_case(messages[i].name) = Panic THEN Panic
    ELSE IF ~parse_terminated(emit_mav_message_def(messages), 1) THEN Panic
    ELSE IF ~Distinct(TypeNames(messages)) THEN Rejected
    ELSE Ok([variants |-> [i \in DOMAIN messages |-> pascal_case(messages[i].name).val],
             structs |-> [i \in DOMAIN messages |-> emit_message(messages[i])]])

\* ParserError::UnknownMessage { id }
UnknownMessage(id) == [kind |-> "UnknownMessage", id |-> id]

\* a match: the first arm whose pattern fits is taken
FirstArm(arms) == CHOOSE i \in arms : \A j \in arms : i <= j

\* Result::map(Self::#name)
map_variant(type, res) ==
    IF res.status = "Ok" THEN Ok([variant |-> type, body |-> res.val]) ELSE res

\* the arms #name::ID => .. whose constant is id
ArmsOfId(structs, id) == {i \in DOMAIN structs : structs[i].ID = id}

\* the arms #name::NAME => .. whose constant is name
ArmsOfName(structs, name) == {i \in DOMAIN structs : structs[i].NAME = name}

\* MavMessage::parse(version, id, payload)
MavMessage_parse(structs, version, id, payload) ==
    IF ArmsOfId(structs, id) = {} THEN Err(UnknownMessage(id))
    ELSE map_variant(structs[FirstArm(ArmsOfId(structs, id))].type,
             deser(EmptyMap, structs[FirstArm(ArmsOfId(structs, id))].message,
                   version, payload))

\* MavMessage::message_id_from_name(name)
MavMessage_message_id_from_name(structs, name) ==
    IF ArmsOfName(structs, name) = {} THEN Err("Invalid message name.")
    ELSE Ok(structs[FirstArm(ArmsOfName(structs, name))].ID)

\* MavMessage::default_message_from_id(id)
MavMessage_default_message_from_id(structs, id) ==
    IF ArmsOfId(structs, id) = {} THEN Err("Invalid message id.")
    ELSE Ok([variant |-> structs[FirstArm(ArmsOfId(structs, id))].type,
             body |-> structs[FirstArm(ArmsOfId(structs, id))].DEFAULT])

\* MavMessage::extra_crc(id)
MavMessage_extra_crc(structs, id) ==
    IF ArmsOfId(structs, id) = {} THEN 0
    ELSE structs[FirstArm(ArmsOfId(structs, id))].EXTRA_CRC

\* the names of the messages: two of them differ in the number of underscores
\* only, one starts with an underscore and a digit, one is the name of the sum
DispatchNames == {"HEARTBEAT", "A_B", "A__B", "_1", "MAV_MESSAGE"}

\* the ids of the messages, and with 7 an id of no message
DispatchIds == {0, 1, 300}

DispatchQueryIds == DispatchIds \cup {7}

\* the fields of the message of a name
DispatchFields(name) ==
    IF name = "HEARTBEAT" THEN <<IrField("type", Primitive("Uint8"), None)>>
    ELSE IF name = "A_B" THEN <<IrField("x", Primitive("Int16"), None)>>
    ELSE <<IrField("a", Array("Uint8", 2), None)>>

\* the payloads parse is called on: shorter than and as long as the messages
DispatchPayloads == {<<>>, <<1>>, <<1, 2>>}

\* the messages of a module as normalise_module returns them: pairwise
\* distinct names and pairwise distinct ids
DispatchModules ==
    {[i \in 1..n |-> IrMessage(names[i], ids[i], None, DispatchFields(names[i]), <<>>)] :
        <<n, names, ids>> \in
            {t \in UNION {{n} \X [1..n -> DispatchNames] \X [1..n -> DispatchIds]
                             : n \in 0..MaxDispatchMessages} :
                Distinct(t[2]) /\ Distinct(t[3])}}

DispatchCall(messages, call, version, id, name, payload) ==
    [messages |-> messages, call |-> call, version |-> version, id |-> id,
     name |-> name, payload |-> payload]

\* a module and one call of a function of its MavMessage
DispatchArgs ==
    UNION {
        {DispatchCall(ms, "parse", version, id, "", payload) :
            version \in MavlinkVersion, id \in DispatchQueryIds,
            payload \in DispatchPayloads}
        \cup {DispatchCall(ms, "message_id_from_name", "V2", 0, name, <<>>) :
                name \in DispatchNames \cup {"PING"}}
        \cup {DispatchCall(ms, call, "V2", id, "", <<>>) :
                call \in {"default_message_from_id", "extra_crc"},
                id \in DispatchQueryIds}
        : ms \in DispatchModules}

InitDispatch ==
    /\ dispatch_arg \in DispatchArgs
    /\ dispatch_result = NotCalled
    /\ codec_arg = NotCalled
    /\ ser_result = NotCalled
    /\ deser_result = NotCalled
    /\ FunctionsIdle
    /\ DriverIdle
    /\ ParserIdle
    /\ FlattenIdle
    /\ NormaliserIdle

\* what a call comes to: there is no call when the module was not emitted
Returned(emitted_module, ret) ==
    [status |-> "Ok", variants |-> emitted_module.variants, ret |-> ret]

ParseOf(emitted, arg) ==
    IF emitted.status # "Ok" THEN emitted
    ELSE Returned(emitted.val,
             MavMessage_parse(emitted.val.structs, arg.version, arg.id, arg.payload))

IdFromNameOf(emitted, arg) ==
    IF emitted.status # "Ok" THEN emitted
    ELSE Returned(emitted.val,
             MavMessage_message_id_from_name(emitted.val.structs, arg.name))

DefaultFromIdOf(emitted, arg) ==
    IF emitted.status # "Ok" THEN emitted
    ELSE Returned(emitted.val,
             MavMessage_default_message_from_id(emitted.val.structs, arg.id))

ExtraCrcOf(emitted, arg) ==
    IF emitted.status # "Ok" THEN emitted
    ELSE Returned(emitted.val, MavMessage_extra_crc(emitted.val.structs, arg.id))

\* the module is emitted and compiled, MavMessage::parse is called
Parse_MavMessage ==
    /\ dispatch_arg.call = "parse"
    /\ dispatch_result = NotCalled
    /\ dispatch_result' = ParseOf(emit_module(dispatch_arg.messages), dispatch_arg)
    /\ UNCHANGED <<dispatch_arg, codec_arg, ser_result, deser_result>>
    /\ UNCHANGED <<functionVars, driverVars, parserVars, flattenVars, normaliserVars>>

\* the module is emitted and compiled, MavMessage::message_id_from_name is called
MessageIdFromName ==
    /\ dispatch_arg.call = "message_id_from_name"
    /\ dispatch_result = NotCalled
    /\ dispatch_result' = IdFromNameOf(emit_module(dispatch_arg.messages), dispatch_arg)
    /\ UNCHANGED <<dispatch_arg, codec_arg, ser_result, deser_result>>
    /\ UNCHANGED <<functionVars, driverVars, parserVars, flattenVars, normaliserVars>>

\* the module is emitted and compiled, MavMessage::default_message_from_id is called
DefaultMessageFromId ==
    /\ dispatch_arg.call = "default_message_from_id"
    /\ dispatch_result = NotCalled
    /\ dispatch_result' = DefaultFromIdOf(emit_module(dispatch_arg.messages), dispatch_arg)
    /\ UNCHANGED <<dispatch_arg, codec_arg, ser_result, deser_result>>
    /\ UNCHANGED <<functionVars, driverVars, parserVars, flattenVars, normaliserVars>>

\* the module is emitted and compiled, MavMessage::extra_crc is called
ExtraCrcOfId ==
    /\ dispatch_arg.call = "extra_crc"
    /\ dispatch_result = NotCalled
    /\ dispatch_result' = ExtraCrcOf(emit_module(dispatch_arg.messages), dispatch_arg)
    /\ UNCHANGED <<dispatch_arg, codec_arg, ser_result, deser_result>>
    /\ UNCHANGED <<functionVars, driverVars, parserVars, flattenVars, normaliserVars>>

NextDispatch == Parse_MavMessage \/ MessageIdFromName \/ DefaultMessageFromId \/ ExtraCrcOfId

SpecDispatch == InitDispatch /\ [][NextDispatch]_vars

\* the value of a struct every integer of which is 0
AllZero(message, body) ==
    /\ DOMAIN body = DOMAIN (message.fields \o message.extension_fields)
    /\ \A i \in DOMAIN body :
           IF (message.fields \o message.extension_fields)[i].type.kind = "Array"
           THEN /\ Len(body[i]) = (message.fields \o message.extension_fields)[i].type.num
                /\ \A k \in DOMAIN body[i] : body[i][k] = 0
           ELSE body[i] = 0

\* the messages of the module that have the id, and those that have the name
MessagesOfId(id) ==
    {i \in DOMAIN dispatch_arg.messages : dispatch_arg.messages[i].id = id}

MessagesOfName(name) ==
    {i \in DOMAIN dispatch_arg.messages : dispatch_arg.messages[i].name = name}

\* what the call returned is what the claim says of the message M
DispatchedTo(M, ret) ==
    IF dispatch_arg.call = "parse"
    THEN ret = map_variant(PascalCase(M.name),
                   deser(EmptyMap, M, dispatch_arg.version, dispatch_arg.payload))
    ELSE IF dispatch_arg.call = "message_id_from_name" THEN ret = Ok(M.id)
    ELSE IF dispatch_arg.call = "default_message_from_id"
    THEN /\ ret.status = "Ok"
         /\ ret.val.variant = PascalCase(M.name)
         /\ AllZero(M, ret.val.body)
    ELSE ret = extra_crc(M)

\* what the call returned is what the claim says of an id of no message
DispatchedToNone(ret) ==
    IF dispatch_arg.call = "parse" THEN ret = Err(UnknownMessage(dispatch_arg.id))
    ELSE IF dispatch_arg.call = "extra_crc" THEN ret = 0
    ELSE ret.status = "Err"

\* C22: for every module with pairwise distinct message names and ids the
\* emitted MavMessage is there and its variants are in message order; parse,
\* default_message_from_id and extra_crc of the id of a message M, and
\* message_id_from_name of the name of M, give the variant, the default, the
\* extra_crc and the id of M; for an id of no message parse gives
\* UnknownMessage{id}, extra_crc 0 and default_message_from_id an error
C22_DispatchConsistency ==
    dispatch_result # NotCalled =>
        /\ dispatch_result.status = "Ok"
        /\ dispatch_result.variants =
               [i \in DOMAIN dispatch_arg.messages |->
                   PascalCase(dispatch_arg.messages[i].name)]
        /\ \A i \in (IF dispatch_arg.call = "message_id_from_name"
                     THEN MessagesOfName(dispatch_arg.name)
                     ELSE MessagesOfId(dispatch_arg.id)) :
               DispatchedTo(dispatch_arg.messages[i], dispatch_result.ret)
        /\ (dispatch_arg.call # "message_id_from_name"
                /\ MessagesOfId(dispatch_arg.id) = {})
               => DispatchedToNone(dispatch_result.ret)

=============================================================================
